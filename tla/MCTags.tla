--------------------------------- MODULE MCTags ---------------------------------
(* Instances of Tags for TLC. *)
EXTENDS Tags, FiniteSets

\* NewTagGroup(nil): each group has a mutex of its own.
OwnLock == CHOOSE f \in [Groups -> Locks] : \A g, h \in Groups : f[g] = f[h] => g = h

\* Tags that InitializeTag was called for all have instance 0; those AllTags lists have
\* one each.
ByName == {[t \in Tags |-> 0]}
Listed == {CHOOSE f \in [Tags -> 1 .. Cardinality(Tags)] :
              \A s, t \in Tags : f[s] = f[t] => s = t}
==============================================================================
