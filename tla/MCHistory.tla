----------------------------- MODULE MCHistory -----------------------------
(* Two tasks at a time and two lives.  A backup and a restore around a print;    *)
(* three requests on the totals and on items; one on the history during two      *)
(* prints; two prints with a loss of Klippy and a statement that fails.          *)
EXTENDS History

MCBudgets ==
  {[requests |-> 3, kinds |-> {"backup", "restore"}, failures |-> 0, prints |-> 1,
    endings |-> {"completed", "cancelled"}, events |-> 0],
   [requests |-> 3, kinds |-> {"compact", "reset", "undo", "backup"}, failures |-> 0, prints |-> 0,
    endings |-> {}, events |-> 0],
   [requests |-> 4, kinds |-> {"insert", "delete"}, failures |-> 0, prints |-> 0, endings |-> {},
    events |-> 0],
   [requests |-> 1, kinds |-> {"deleteRows", "read", "reset"}, failures |-> 0, prints |-> 2,
    endings |-> {"completed"}, events |-> 0],
   [requests |-> 0, kinds |-> {}, failures |-> 1, prints |-> 2, endings |-> {"error"}, events |-> 1]}
=============================================================================
