---------------------------- MODULE RequestServer ----------------------------
(***************************************************************************)
(* What a Modbus worker promises its callers (service/modbus/worker.rs):   *)
(* a request it took is open until it is answered or dropped.  Parts of a  *)
(* write are sent to the meter only while it is open, and the meter may    *)
(* execute what was sent at any later time, or never; a write is answered  *)
(* once, never before all of it was executed, and whoever waits for a      *)
(* request when it is dropped is told.                                     *)
(***************************************************************************)
EXTENDS Naturals

CONSTANTS Requests,  \* the requests callers may make
          Kind,      \* "reads", "writes" or "streams"
          Size       \* number of parts of a request

VARIABLES caller,    \* what each caller knows of its request
          open,      \* requests of which parts may still be sent
          sent,      \* parts of each write that were ever sent
          applied    \* parts of each write the meter has executed

vars == <<caller, open, sent, applied>>

Init ==
  /\ caller = [r \in Requests |-> "idle"]
  /\ open = {}
  /\ sent = [r \in Requests |-> {}]
  /\ applied = [r \in Requests |-> {}]

(* A request is taken, or refused by a server that is gone.                *)
Ask(r) ==
  /\ caller[r] = "idle"
  /\ \/ /\ caller' = [caller EXCEPT ![r] = "waiting"]
        /\ open' = open \cup {r}
     \/ /\ caller' = [caller EXCEPT ![r] = "failed"]
        /\ UNCHANGED open
  /\ UNCHANGED <<sent, applied>>

(* The caller gives up.                                                    *)
Leave(r) ==
  /\ caller[r] \in {"idle", "waiting"}
  /\ caller' = [caller EXCEPT ![r] = "gone"]
  /\ UNCHANGED <<open, sent, applied>>

(* A part of an open write is sent, perhaps once more.                     *)
Forward(r, part) ==
  /\ r \in open
  /\ Kind[r] = "writes"
  /\ sent' = [sent EXCEPT ![r] = @ \cup {part}]
  /\ UNCHANGED <<caller, open, applied>>

(* The meter executes a part that was sent, whatever has become of the     *)
(* request meanwhile.                                                      *)
Execute(r, part) ==
  /\ part \in sent[r]
  /\ applied' = [applied EXCEPT ![r] = @ \cup {part}]
  /\ UNCHANGED <<caller, open, sent>>

Answer(r) ==
  /\ r \in open
  /\ caller[r] = "waiting"
  /\ Kind[r] # "streams"
  /\ Kind[r] = "writes" => applied[r] = 1 .. Size[r]
  /\ caller' = [caller EXCEPT ![r] = "done"]
  /\ open' = open \ {r}
  /\ UNCHANGED <<sent, applied>>

(* Requests are given up, and whoever waits for one of them is told.       *)
Drop(some) ==
  /\ some \subseteq open
  /\ caller' = [r \in Requests |->
                  IF r \in some /\ caller[r] = "waiting" THEN "failed" ELSE caller[r]]
  /\ open' = open \ some
  /\ UNCHANGED <<sent, applied>>

Next ==
  \/ \E r \in Requests : Ask(r) \/ Leave(r) \/ Answer(r)
  \/ \E r \in Requests : \E part \in 1 .. Size[r] : Forward(r, part) \/ Execute(r, part)
  \/ \E some \in SUBSET open : Drop(some)

Spec == Init /\ [][Next]_vars

-----------------------------------------------------------------------------
(* What a caller was told is final: after its request is answered or fails *)
(* it is told nothing else and no part of a write is sent any more.  What  *)
(* was sent by then may still be executed, also after an error, but        *)
(* nothing else.                                                           *)
ToldIsFinal ==
  [][\A r \in Requests :
       caller[r] \in {"done", "failed"} =>
         /\ caller'[r] = caller[r]
         /\ sent'[r] = sent[r]
         /\ applied'[r] \subseteq applied[r] \cup sent[r]]_vars
=============================================================================
