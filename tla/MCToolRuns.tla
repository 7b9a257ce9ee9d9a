----------------------------- MODULE MCToolRuns -----------------------------
(***************************************************************************)
(* Small instances of ToolRuns for TLC.                                    *)
(***************************************************************************)
EXTENDS ToolRuns, TLC

CONSTANTS a, b, c,  \* runs
          x, y      \* hosts

\* Two heavy runs on one host and a blocking one on another.
PairKind == a :> "heavy" @@ b :> "heavy" @@ c :> "blocking"
PairHost == a :> x @@ b :> x @@ c :> y

\* A run of each kind, the heavy one and the blocking one on the same host.
MixedKind == a :> "heavy" @@ b :> "blocking" @@ c :> "light"
MixedHost == a :> x @@ b :> x @@ c :> NoHost

\* Runs of one kind and host are interchangeable.
Interchangeable == {pi \in Permutations(Runs) :
  \A r \in Runs : Kind[pi[r]] = Kind[r] /\ HostOf[pi[r]] = HostOf[r]}

=============================================================================
