------------------------------ MODULE FileStore ------------------------------
(***************************************************************************)
(* What the storage of one node promises to the clients that create        *)
(* regular files, whatever containers it keeps them in: a create that is   *)
(* acknowledged has been written before, where a reader finds it or, in a  *)
(* damaged container, where none does; nothing that can be read goes away; *)
(* a create whose client lost its connection may or may not be stored.     *)
(***************************************************************************)
CONSTANT File           \* the create requests, each for a name of its own

VARIABLES stored,       \* the files a reader of the disk finds whole
          buried,       \* the files written whole where no reader gets to
          answer        \* what the client of each create knows

storeVars == <<stored, buried, answer>>

Answers == {"new", "pending", "acked", "failed", "lost"}

StoreTypeOK ==
    /\ stored \subseteq File
    /\ buried \subseteq File
    /\ answer \in [File -> Answers]

Init ==
    /\ stored = {} /\ buried = {}
    /\ answer = [f \in File |-> "new"]

\* A client sends its create.
Request(f) ==
    /\ answer[f] = "new"
    /\ answer' = [answer EXCEPT ![f] = "pending"]
    /\ UNCHANGED <<stored, buried>>

\* The file becomes readable: the only way into the store.
Store(f) ==
    /\ answer[f] = "pending"
    /\ stored' = stored \cup {f}
    /\ UNCHANGED <<buried, answer>>

\* The file is written behind what no reader gets past.
Bury(f) ==
    /\ answer[f] = "pending"
    /\ buried' = buried \cup {f}
    /\ UNCHANGED <<stored, answer>>

\* Success is answered only for a file that is written.
Ack(f) ==
    /\ answer[f] = "pending"
    /\ f \in stored \cup buried
    /\ answer' = [answer EXCEPT ![f] = "acked"]
    /\ UNCHANGED <<stored, buried>>

\* An error says nothing of whether the file was stored.
Reject(f) ==
    /\ answer[f] = "pending"
    /\ answer' = [answer EXCEPT ![f] = "failed"]
    /\ UNCHANGED <<stored, buried>>

\* The node goes down: the clients that wait get no answer.
Lose ==
    /\ answer' = [f \in File |->
                    IF answer[f] = "pending" THEN "lost" ELSE answer[f]]
    /\ UNCHANGED <<stored, buried>>

Next ==
    \/ \E f \in File : Request(f) \/ Store(f) \/ Bury(f) \/ Ack(f) \/ Reject(f)
    \/ Lose

Spec == Init /\ [][Next]_storeVars
=============================================================================
