------------------------------- MODULE MCNotice -------------------------------
(* One alert, dispatched by a task with three attempts and by whoever raised  *)
(* it: up to four messages of one content.                                  *)
EXTENDS Notice
MCContent == [a \in Alerts |-> CHOOSE c \in Contents : TRUE]
===============================================================================
