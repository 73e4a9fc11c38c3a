-------------------------- MODULE MCUpdateSession --------------------------
(* Small instances of UpdateSession for TLC.                               *)
EXTENDS UpdateSession, TLC

CONSTANTS a, b, m, x

\* Archive a unpacks into file b; m is a medium; x has no extension.
MCNames == {a, b, m, x}
MCItems == {a, m, x}
MCKind == (a :> "rar") @@ (m :> "media") @@ (x :> "noext")
MCPayload == a :> b
MCManifest == << <<a, m>>, <<x, a>> >>
\* The archive changes its length between the releases; x comes out empty.
MCSize == (a :> <<2, 1>>) @@ (m :> <<1, 1>>) @@ (x :> <<2, 0>>) @@ (b :> <<1, 1>>)

\* x is in both releases, in the same length: which is there cannot be told.
LiveManifest == << <<a, m, x>>, <<x, a>> >>
LiveSize == (a :> <<2, 1>>) @@ (m :> <<1, 1>>) @@ (x :> <<2, 2>>) @@ (b :> <<1, 1>>)

AllFaults == FaultKinds
Reachability == {"refuse", "lost"}
=============================================================================
