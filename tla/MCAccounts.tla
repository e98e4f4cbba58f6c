--------------------------- MODULE MCAccounts ---------------------------
EXTENDS Accounts
TwoKinds == <<"google", "imap">>
\* The first account is shared for mail, the second for a calendar that it does not have.
MCAsks == <<{<<"mail", {"p", "*"}>>}, {<<"calendar", {"p"}>>}>>
========================================================================
