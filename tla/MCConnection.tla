---------------------------- MODULE MCConnection ----------------------------
(* Connection and what it promises on small instances, with callers and      *)
(* streams 1 .. n.  Liveness is checked with safety, so there is no SYMMETRY *)
(* but two constraints that choose one of the behaviours that differ only in *)
(* the names of callers or streams.                                          *)
EXTENDS ConnectionRefinement, Naturals

(* Callers run the same code: it is enough to look at behaviours in which a  *)
(* caller makes its first call after the callers with smaller numbers made   *)
(* theirs.                                                                   *)
FirstCallsInOrder ==
    \A c, d \in Callers : req[c] = 0 /\ req'[c] # 0 /\ d < c => req[d] # 0

(* Ids of streams are only compared: as long as all are free and no frame    *)
(* anywhere has one, it is enough to let the first one be taken.             *)
FirstStreamFirst ==
    (/\ free = Streams /\ free' # Streams
     /\ wire = {} /\ frame = NoFrame /\ poisoned = {}
     /\ \A s \in Streams : queue[s] = NoFrame
     /\ \A c \in Callers : reply[c] = NoFrame)
      => 1 \notin free'
=============================================================================
