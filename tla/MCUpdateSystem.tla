--------------------------- MODULE MCUpdateSystem ---------------------------
(* Small instances of UpdateSystem for TLC.                                *)
EXTENDS UpdateSystem, TLC

CONSTANTS a, b, x

\* Archive a unpacks into file b; x has no extension.
MCNames == {a, b, x}
MCItems == {a, x}
MCKind == (a :> "rar") @@ (x :> "noext")
MCPayload == a :> b
MCManifest == << <<a, x>>, <<a>> >>
\* A file of an older release, or a part of it, never has the announced length:
\* the length is all the script looks at.
MCSize == (a :> <<1, 2>>) @@ (x :> <<1, 2>>) @@ (b :> <<1, 1>>)

\* Every fault but those that no property survives.
SessionFaults == {"refuse", "drop", "nil", "lost", "crash", "disk", "nothread",
                  "config"}
CoverFaultsButCopy == {"kill", "search", "delete", "flag", "start", "crash"}

\* One release.
OneManifest == << <<a, x>> >>
OneSize == (a :> <<1>>) @@ (x :> <<2>>) @@ (b :> <<1>>)

\* The instances of the other runs.
UpdaterDies  == {"crash"}
NoFaults     == {}
CopyFails    == {"open", "flush"}
NotApart     == {"started"}
CoverReturns == {"kill", "search", "open", "write", "delete", "flag"}
=============================================================================
