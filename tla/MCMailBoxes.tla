---- MODULE MCMailBoxes ----
EXTENDS MailBoxes, TLC

Symmetry == Permutations(Chats)
====
