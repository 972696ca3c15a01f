----------------------------- MODULE MCGitCache -----------------------------
(***************************************************************************)
(* Small instances of GitCache for TLC, and its mutants.                   *)
(***************************************************************************)
EXTENDS GitCacheSafety, TLC

CONSTANTS w1, w2, u1, u2, main, side, c1, c2, c3, d1

History == (c1 :> {c1} @@ c2 :> {c1, c2} @@ c3 :> {c1, c3} @@ d1 :> {d1})

Repo(m, s, tagged, default) ==
  [branches |-> (main :> m @@ side :> s),
   tags |-> (main :> None @@ side :> tagged), default |-> default]

(* main moves; a branch appears, becomes the default while main is         *)
(* deleted, and goes again; a tag of its name appears, moves and is        *)
(* deleted.                                                                *)
Busy == {Repo(c1, None, None, main), Repo(c2, c3, None, main),
         Repo(None, c3, None, side), Repo(c2, None, c1, main),
         Repo(c2, None, c2, main)}

Other == {Repo(d1, None, None, main)}

TwoRepositories == (u1 :> Busy @@ u2 :> Other)

Of(url, tracked) == [url |-> url, tracked |-> tracked]

Edited == {Of(u1, <<>>), Of(u1, <<side, main>>), Of(u1, <<c1>>),
           Of(u2, <<main>>), Of(None, <<main>>)}

Tracking == {Of(u1, <<main>>)}

MainOfBoth == {Of(u1, <<main>>), Of(u2, <<main>>)}
=============================================================================
