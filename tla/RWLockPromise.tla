---------------------------- MODULE RWLockPromise ----------------------------
(***************************************************************************)
(* What a write-biased readers-writer lock promises its users, without the *)
(* redis locks and the counter it is built from.  A writer first claims    *)
(* the lock; from then on no reader is admitted, and the writer writes     *)
(* once the readers admitted before it are out.                            *)
(***************************************************************************)
CONSTANTS Readers, Writers, NoWriter

VARIABLES
  admitted,  \* readers the lock has let through its gate, still to read
  reading,   \* readers inside
  claim,     \* the writer new readers wait for, or NoWriter
  writing    \* writers inside

vars == << admitted, reading, claim, writing >>

Init ==
  /\ admitted = {}
  /\ reading = {}
  /\ claim = NoWriter
  /\ writing = {}

Admit(r) ==
  /\ claim = NoWriter
  /\ r \notin admitted \cup reading
  /\ admitted' = admitted \cup {r}
  /\ UNCHANGED << reading, claim, writing >>

StartReading(r) ==
  /\ r \in admitted
  /\ writing = {}
  /\ admitted' = admitted \ {r}
  /\ reading' = reading \cup {r}
  /\ UNCHANGED << claim, writing >>

StopReading(r) ==
  /\ r \in reading
  /\ reading' = reading \ {r}
  /\ UNCHANGED << admitted, claim, writing >>

Claim(w) ==
  /\ claim = NoWriter
  /\ claim' = w
  /\ UNCHANGED << admitted, reading, writing >>

StartWriting(w) ==
  /\ claim = w
  /\ reading = {} /\ writing = {}
  /\ writing' = {w}
  /\ UNCHANGED << admitted, reading, claim >>

StopWriting(w) ==
  /\ w \in writing
  /\ writing' = writing \ {w}
  /\ UNCHANGED << admitted, reading, claim >>

(* A writer gives up its claim after it has written, or because it died.   *)
Unclaim(w) ==
  /\ claim = w
  /\ w \notin writing
  /\ claim' = NoWriter
  /\ UNCHANGED << admitted, reading, writing >>

Next ==
  \/ \E r \in Readers : Admit(r) \/ StartReading(r) \/ StopReading(r)
  \/ \E w \in Writers : \/ Claim(w) \/ StartWriting(w) \/ StopWriting(w)
                        \/ Unclaim(w)

Spec == Init /\ [][Next]_vars
=============================================================================
