---------------------------- MODULE UpdateSystem ----------------------------
(***************************************************************************)
(* The updater (UpdateSession) and autocover (AutoCover) on one machine:   *)
(* two processes that share .\downloaded and updateflag.dat, each of which *)
(* can die and be started again.                                           *)
(***************************************************************************)
EXTENDS UpdateSession

CONSTANTS
  CoverFaults, \* the failures autocover can meet
  KillsUpdater \* whether the [kill] section of autoupdate.ini names the
               \* updater; the one in work/ has no such section

ASSUME KillsUpdaterAssumption == KillsUpdater \in BOOLEAN

VARIABLES installed, main, cover, due, seen, copying, leaked

\* What the updater and rar have open: the files of the thread, which no other
\* process can open, the archives and what comes out of them.
Held == locked \cup Unpacking

C == INSTANCE AutoCover WITH held <- Held

sessionVars == <<script, thread, downloaded, locked, rar, video, flag, server>>
coverProc   == <<installed, main, cover, due, seen, copying, leaked>>
allVars     == <<sessionVars, coverProc>>
unshared    == <<script, thread, locked, rar, video, server>>

SystemInit == Init /\ C!CoverInit

\* Who starts the updater, and when, is not in the repository: nothing in it
\* keeps the two programs apart. The fault "started" is that it is started
\* while autocover works. What autocover has open the updater can neither
\* create nor remove until autocover is through with it; a rar that has the
\* file open goes on writing.
Updater ==
  /\ Next
  /\ "started" \notin CoverFaults /\ state = "down" /\ cover # "off" =>
       state' = "down"
  /\ \A n \in (copying \cup leaked) \ Unpacking : downloaded'[n] = downloaded[n]
  /\ UNCHANGED coverProc

Cover == C!CoverStep /\ UNCHANGED unshared

\* KillOthers ends the updater if it is one of the others, and does not look
\* whether it did.
KillOthers ==
  /\ C!KillOthers
  /\ \/ KillsUpdater /\ state # "down" /\ Die
     \/ /\ ~KillsUpdater \/ state = "down" \/ "others" \in CoverFaults
        /\ UNCHANGED sessionVars

CoverCrash == C!CoverCrash /\ UNCHANGED sessionVars

\* Someone starts the main program again, after autocover died or before it is
\* through.
StartMain ==
  /\ ~main
  /\ main' = TRUE
  /\ UNCHANGED <<sessionVars, installed, cover, due, seen, copying, leaked>>

SystemNext == Updater \/ Cover \/ KillOthers \/ CoverCrash \/ StartMain

SystemSpec == SystemInit /\ [][SystemNext]_allVars

\* autocover is started again and again and then scheduled; a search that may
\* fail does not fail every time. Nothing is asked of the updater.
SystemFairness == /\ WF_allVars(Cover) /\ WF_allVars(KillOthers)
                  /\ SF_allVars(KillOthers /\ cover' = "CopyDir")

FairSystemSpec == SystemSpec /\ SystemFairness

-----------------------------------------------------------------------------
SystemTypeOK ==
  /\ TypeOK
  /\ installed \in [Names -> File]
  /\ main \in BOOLEAN
  /\ cover \in C!Steps
  /\ due \subseteq Names /\ seen \subseteq Names
  /\ copying \subseteq Names /\ leaked \subseteq Names

\* What release r installs: its unpacked archives and the files without
\* extension.
Installs(r) ==
  LET items == {Manifest[r][i] : i \in 1 .. Len(Manifest[r])}
  IN  {Payload[n] : n \in {i \in items : Kind[i] = "rar"}} \cup
      {n \in items : Kind[n] = "noext"}

Arrived(f, n, r) == f.rel >= r /\ IsWhole(n, f)

\* The server's view and the machine agree: of a release reported as finished,
\* and not superseded, every file is installed, or it waits in .\downloaded
\* with the flag set, whatever died in between. It takes that autocover ends
\* the updater, and rar with it, before it copies, that nobody starts the
\* updater meanwhile, that rar and every copy succeed, and that the length
\* tells a file from a part of it and from its older versions.
NoLostUpdate ==
  finished > 0 /\ finished = announced =>
    \A n \in Installs(finished) :
      \/ Arrived(installed[n], n, finished)
      \/ Arrived(downloaded[n], n, finished) /\ flag = 1

\* DelDir removes only what CopyDir has brought to its place: no file is
\* removed that is not installed in the same release and length, although
\* CopyDir does not look whether a copy failed: a copyFile that could not open
\* its target, or whose fwrite failed, keeps the source from being deleted. It
\* takes that the updater, and rar, are down, and that no copy fails in a way
\* copyFile does not see (a read, or the flush of fclose).
DeletedOnlyWhenInstalled ==
  [][\A n \in Names :
       cover = "DelDir" /\ cover' = "DelDir" /\ downloaded'[n] # downloaded[n] =>
         installed[n] = downloaded[n]]_allVars

\* What was reported as finished reaches the installed files, as long as no
\* copy fails: autocover, run often enough, does its part whatever happens to
\* the updater. (A copyFile that fails to open, or whose fwrite fails, leaves a
\* handle; the failures copyFile does not see are not in the run.)
EventuallyInstalled ==
  [](leaked = {}) =>
    (finished = MaxRelease ~>
       \A n \in Installs(MaxRelease) : Arrived(installed[n], n, MaxRelease))

\* autocover ends the main program: on each of its paths it starts it again.
MainRestarted == ~main ~> main
=============================================================================
