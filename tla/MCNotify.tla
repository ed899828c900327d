------------------------------ MODULE MCNotify ------------------------------
(* The notifiers of examples/config.yaml, a second webhook, and a kind     *)
(* buildNotifier does not know.                                            *)
EXTENDS Notify

Known ==
  {[name |-> "slack", kind |-> "webhook"], [name |-> "ops", kind |-> "webhook"],
   [name |-> "audit", kind |-> "file"], [name |-> "pager", kind |-> "email"]}

Stdout == [name |-> "stdout", kind |-> "stdout"]
=============================================================================
