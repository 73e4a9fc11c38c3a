------------------------- MODULE UpdateSystem_proofs -------------------------
(***************************************************************************)
(* Theorems about the updater and autocover on one machine, for every set  *)
(* of files, every number of releases and every combination of failures    *)
(* that the theorem does not exclude.                                      *)
(***************************************************************************)
EXTENDS UpdateSystem, UpdateSession_proofs

-----------------------------------------------------------------------------
(* What the theorems assume of the environment, each where it is needed.   *)

\* autocover is told of the updater and ends it, and nobody starts the updater
\* again before autocover is through.
UpdaterEnded == KillsUpdater /\ {"others", "started"} \cap CoverFaults = {}
\* A rar.exe ends when the updater is ended.
RarEndsFirst == "outlive" \notin Faults
\* Each copy of autocover succeeds, or fails in a way that copyFile sees: it
\* reads to the end, and fclose writes what is left.
ReadsWhole == {"read", "flush"} \cap CoverFaults = {}
\* No target refuses to be opened or written.
CopiesSucceed == "open" \notin CoverFaults /\ "write" \notin CoverFaults

\* The list fits in a block, a Content-Length comes with each file, rar unpacks.
AnswersWhole == {"cut", "nolength", "rar"} \cap Faults = {}

\* No part of an older file has the length that is announced for a newer one, and
\* none is announced with the length of a file that is not there.
LengthsTell ==
  \A n \in Items : \A r \in Releases :
    /\ Size[n][r] > 0
    /\ \A s \in Releases : r < s => Size[n][r] < Size[n][s]

-----------------------------------------------------------------------------
(* The inductive invariants.                                               *)

AfterKill == {"CopyDir", "DelDir", "openFlag", "StartProgram"}

\* The steps of autocover and where the other processes are meanwhile.
RestInv ==
  state = "down" =>
    list = <<>> /\ count = 0 /\ worker = "none" /\ closed /\ locked = {}

\* The script waits for the rar it has started.
RarAlone == rar # {} => state = "unrar" /\ rar = {name}

AloneInv ==
  /\ cover \in AfterKill => state = "down"
  /\ cover # "CopyDir" => copying = {}
  /\ cover \notin AfterKill => leaked = {}

\* What a search of autocover has come to.
Same(n) == installed[n] = downloaded[n]

SearchInv ==
  /\ cover = "CopyDir" => /\ due = C!Present
                          /\ \A n \in seen \ (copying \cup leaked) : Same(n)
                          /\ \A m, n \in copying : m = n
  /\ cover \in {"DelDir", "openFlag"} => \A n \in C!Present \ leaked : Same(n)

MachineInv == RestInv /\ RarAlone /\ AloneInv /\ SearchInv

\* The files and the list, as long as a list is worked on.
Fetched == (Scheduled \ {"stWaitForCheckVersion", "stCheckVersion"}) \cup Inside

AnnouncedList(r) == [i \in 1 .. Len(Manifest[r]) |-> Line(Manifest[r][i], r)]

ReleaseInv ==
  /\ \A n \in Names : downloaded[n].rel <= release
  /\ \A n \in Items :
       IF downloaded[n].rel \in Releases
       THEN downloaded[n].len <= Size[n][downloaded[n].rel]
       ELSE downloaded[n].len = 0
  /\ ~closed => downloaded[name].rel \in Releases /\ length = Size[name][downloaded[name].rel]

RoundInv ==
  /\ state \in {"stCheckVersion", "idle"} => list = <<>> /\ count = 0
  /\ state \in Fetched => /\ announced \in Releases
                          /\ list = AnnouncedList(announced)
                          /\ state # "stNotifyServerOver" => finished < announced

\* A file newer than the list is still held by the thread, or it is whole.
NewerInv ==
  state \in Fetched =>
    \A n \in Items : downloaded[n].rel > announced => n \in locked \/ IsWhole(n, downloaded[n])

\* What was counted is there, but what is being fetched or unpacked once more.
Emerging(n) == state = "unrar" /\ Payload[n] = Payload[name]
Fetching(n)  == state \in Downloading \cup {"HandleDownoadedFile"} /\ n = name

HandledInv ==
  state \in Fetched =>
    \A i \in 1 .. count :
      LET n == list[i].name
      IN  /\ Kind[n] = "rar" =>
               Emerging(n) \/ Arrived(downloaded[Payload[n]], Payload[n], announced)
          /\ Kind[n] = "noext" =>
               Fetching(n) \/ Arrived(downloaded[n], n, announced)

UnpackInv ==
  state = "unrar" =>
    /\ name \notin locked /\ Arrived(downloaded[name], name, announced)
    /\ name \in rar \/ Arrived(downloaded[Payload[name]], Payload[name], announced)

ListedInv == ReleaseInv /\ RoundInv /\ NewerInv /\ HandledInv /\ UnpackInv

\* A release that is reported and not superseded.
Settled == finished > 0 /\ finished = announced

SettledInv ==
  Settled => \A n \in Installs(finished) :
    /\ \/ Arrived(downloaded[n], n, finished)
       \/ downloaded[n] = C!Missing /\ Arrived(installed[n], n, finished)
    /\ flag = 0 => Arrived(installed[n], n, finished)

\* autocover has begun with the flag set: only the updater, about to write it, and
\* with a list that is not finished, may have truncated it since.
FlagKept ==
  cover \in {"killOthers", "CopyDir", "DelDir", "openFlag"} /\ flag = 0 =>
    finished < announced /\ state \in {"WriteFlag", "down"}

\* A copy that succeeds leaves nothing open, and what is copied is there.
LeakInv == leaked = {} /\ (cover = "CopyDir" => copying \subseteq C!Present)

LossInv == ListedInv /\ SettledInv /\ FlagKept /\ LeakInv

-----------------------------------------------------------------------------
(* Types, for every combination of failures.                               *)

\* Every action of autocover, the killing left to the composition.
CoverDefs == C!CoverStep \/ C!KillOthers \/ C!CoverCrash

\* What an action of autocover does to the types of its own variables and to
\* what it shares.
LEMMA CoverTypes ==
  ASSUME SystemTypeOK, CoverDefs
  PROVE  /\ installed' \in [Names -> File] /\ main' \in BOOLEAN
         /\ cover' \in C!Steps /\ due' \subseteq Names /\ seen' \subseteq Names
         /\ copying' \subseteq Names /\ leaked' \subseteq Names
<1> USE DEF SystemTypeOK, C!Steps, C!search, C!handles, C!Ended
<1>1. C!Present \subseteq Names
  BY DEF C!Present
<1>2. CASE C!StartCover
  BY <1>2 DEF C!StartCover
<1>3. CASE C!EndCopyDir
  BY <1>1, <1>3 DEF C!EndCopyDir, C!BeginSearch
<1>4. CASE C!EndDelDir
  BY <1>4 DEF C!EndDelDir
<1>5. CASE C!ClearFlag
  BY <1>5 DEF C!ClearFlag
<1>6. CASE C!StartProgram
  BY <1>6 DEF C!StartProgram
<1>7. ASSUME NEW n \in Names, C!BeginCopyFile(n)
      PROVE  /\ installed' \in [Names -> File] /\ seen' \subseteq Names
             /\ copying' \subseteq Names /\ leaked' \subseteq Names
             /\ UNCHANGED <<main, cover, due>>
  <2>1. C!Emptied(downloaded[n]) \in File
    BY DEF TypeOK, C!Emptied, File
  <2> QED
    BY <1>7, <2>1 DEF C!BeginCopyFile, C!Next1
<1>8. ASSUME NEW n \in Names, C!EndCopyFile(n)
      PROVE  /\ installed' \in [Names -> File]
             /\ copying' \subseteq Names /\ leaked' \subseteq Names
             /\ UNCHANGED <<main, cover, due, seen>>
  BY <1>8 DEF C!EndCopyFile, TypeOK
<1>9. ASSUME NEW n \in Names, C!DeleteFile(n)
      PROVE  seen' \subseteq Names /\ UNCHANGED <<installed, main, cover, due, copying, leaked>>
  BY <1>9 DEF C!DeleteFile, C!Next1
<1>10. CASE C!KillOthers
  BY <1>1, <1>10 DEF C!KillOthers, C!BeginSearch
<1>11. CASE C!CoverCrash
  BY <1>11 DEF C!CoverCrash
<1> QED
  BY <1>2, <1>3, <1>4, <1>5, <1>6, <1>7, <1>8, <1>9, <1>10, <1>11 DEF CoverDefs, C!CoverStep

\* What autocover, but for the killing, does to the files and the flag: it may
\* delete files that nobody holds, and clear the flag.
LEMMA CoverShared ==
  ASSUME SystemTypeOK, C!CoverStep
  PROVE  /\ \/ UNCHANGED downloaded
            \/ \E n \in Names \ (Held \cup leaked) :
                 /\ cover = "DelDir" /\ n \in C!Present
                 /\ downloaded' = [downloaded EXCEPT ![n] = C!Missing]
         /\ UNCHANGED flag \/ (cover = "openFlag" /\ flag' = 0)
<1>1. ASSUME NEW n \in Names, C!DeleteFile(n)
      PROVE  /\ UNCHANGED flag
             /\ \/ UNCHANGED downloaded
                \/ /\ n \notin Held \cup leaked /\ cover = "DelDir" /\ n \in C!Present
                   /\ downloaded' = [downloaded EXCEPT ![n] = C!Missing]
  BY <1>1 DEF C!DeleteFile, C!Next1
<1> QED
  BY <1>1 DEF C!CoverStep, C!StartCover, C!EndCopyDir, C!EndDelDir, C!ClearFlag, C!StartProgram,
              C!BeginCopyFile, C!EndCopyFile

\* The script's own invariant survives that.
LEMMA CoverBase ==
  ASSUME SystemTypeOK, BaseInv, Cover
  PROVE  TypeOK' /\ BaseInv'
<1>1. /\ UNCHANGED <<state, list, count, worker, length, closed, locked, rar, video>>
      /\ UNCHANGED <<release, announced, finished>>
  BY DEF Cover, unshared, script, thread, server
<1>2. downloaded' \in [Names -> File]
  <2>1. C!Missing \in File
    BY DEF C!Missing, File, Absent
  <2> QED
    BY <2>1, CoverShared DEF Cover, SystemTypeOK, TypeOK
<1>3. flag' \in {0, 1}
  BY CoverShared DEF Cover, SystemTypeOK, TypeOK
<1>4. TypeOK'
  BY <1>1, <1>2, <1>3 DEF SystemTypeOK, TypeOK
<1>5. UnrarInv'
  <2>1. CASE UNCHANGED downloaded
    BY <1>1, <2>1 DEF BaseInv, UnrarInv, name, Current
  <2>2. ASSUME NEW n \in Names \ (Held \cup leaked),
               downloaded' = [downloaded EXCEPT ![n] = C!Missing]
        PROVE  UnrarInv'
    <3>1. n \notin rar
      BY <2>2 DEF Held, Unpacking
    <3> QED
      BY <1>1, <2>2, <3>1 DEF BaseInv, UnrarInv, name, Current, SystemTypeOK, TypeOK
  <2> QED
    BY <2>1, <2>2, CoverShared DEF Cover
<1>6. ListInv' /\ ThreadInv'
  BY <1>1 DEF BaseInv, ListInv, ThreadInv, name, Current
<1> QED
  BY <1>4, <1>5, <1>6 DEF BaseInv

LEMMA SystemInitTypes == SystemInit => SystemTypeOK /\ BaseInv
<1> SUFFICES ASSUME SystemInit PROVE SystemTypeOK /\ BaseInv
  OBVIOUS
<1>1. TypeOK /\ BaseInv
  BY InitInv DEF SystemInit, SessionInv
<1>2. C!Missing \in File
  BY DEF C!Missing, File, Absent
<1> QED
  BY <1>1, <1>2 DEF SystemInit, C!CoverInit, SystemTypeOK, C!Steps

LEMMA SystemNextTypes ==
  SystemTypeOK /\ BaseInv /\ [SystemNext]_allVars => SystemTypeOK' /\ BaseInv'
<1> SUFFICES ASSUME SystemTypeOK, BaseInv, [SystemNext]_allVars
             PROVE  SystemTypeOK' /\ BaseInv'
  OBVIOUS
<1>1. TypeOK
  BY DEF SystemTypeOK
<1>2. CASE Updater
  <2>1. TypeOK' /\ BaseInv'
    BY <1>1, <1>2, NextBase DEF Updater
  <2> QED
    BY <1>2, <2>1 DEF Updater, coverProc, SystemTypeOK
<1>3. CASE Cover
  BY <1>3, CoverTypes, CoverBase DEF Cover, CoverDefs, SystemTypeOK
<1>4. CASE KillOthers
  <2>1. TypeOK' /\ BaseInv'
    <3>1. CASE Die
      BY <1>1, <3>1, DieInv
    <3>2. CASE UNCHANGED sessionVars
      BY <1>1, <3>2, NextBase DEF sessionVars, vars, files
    <3> QED
      BY <1>4, <3>1, <3>2 DEF KillOthers
  <2> QED
    BY <1>4, <2>1, CoverTypes DEF KillOthers, CoverDefs, SystemTypeOK
<1>5. CASE CoverCrash
  <2>1. TypeOK' /\ BaseInv'
    BY <1>1, <1>5, NextBase DEF CoverCrash, sessionVars, vars, files
  <2> QED
    BY <1>5, <2>1, CoverTypes DEF CoverCrash, CoverDefs, SystemTypeOK
<1>6. CASE StartMain \/ UNCHANGED allVars
  <2>1. TypeOK' /\ BaseInv'
    BY <1>1, <1>6, NextBase DEF StartMain, allVars, sessionVars, vars, files
  <2> QED
    BY <1>6, <2>1 DEF StartMain, allVars, coverProc, SystemTypeOK
<1> QED
  BY <1>2, <1>3, <1>4, <1>5, <1>6 DEF SystemNext

\* The script's list, thread and archive fit the function it is in, whatever
\* autocover does beside it and whichever process is ended.
THEOREM SystemInvariance == SystemSpec => [](SystemTypeOK /\ BaseInv)
<1> QED
  BY SystemInitTypes, SystemNextTypes, PTL DEF SystemSpec

\* Every variable of the two processes and of the machine keeps its type.
THEOREM SystemTypeCorrect == SystemSpec => []SystemTypeOK
<1> QED
  BY SystemInvariance, PTL

-----------------------------------------------------------------------------
(* What autocover deletes.                                                 *)

\* No process, no list, no thread and no open file.
LEMMA NextRest ==
  ASSUME TypeOK, BaseInv, RestInv, RarAlone, [Next]_vars
  PROVE  RestInv'
<1>1. CASE state' # "down"
  BY <1>1 DEF RestInv
<1>2. CASE state' = "down" /\ state # "down"
  <2>1. Die
    BY <1>2 DEF Next, Timeout, Handling, Rar, RarEnds, Download, BEGIN, Crash, HeartbeatFails,
       Publish, stWaitForCheckVersion, NothingToDo, UpdateAnnounced,
       stCheckForDownload, stIsDownloadOver, StartDownload, NotifyServer,
       stDownloadOne, stIsDownloadOK, stNotifyServerOver, BeginUnrar, EndUnrar,
       UnrarNothing, HandleMedia, HandleNoExt, Handled, OpenFlag, WriteFlag,
       ConnectFails, Connect, Read, ReadEnds, script, vars
  <2> QED
    BY <2>1 DEF Die, RestInv
<1>3. CASE state' = "down" /\ state = "down"
  <2>1. UNCHANGED <<list, count, worker, closed, locked>>
    BY <1>3 DEF Next, Timeout, Handling, Rar, RarEnds, Download, BEGIN, Crash, HeartbeatFails,
       Publish, stWaitForCheckVersion, NothingToDo, UpdateAnnounced,
       stCheckForDownload, stIsDownloadOver, StartDownload, NotifyServer,
       stDownloadOne, stIsDownloadOK, stNotifyServerOver, BeginUnrar, EndUnrar,
       UnrarNothing, HandleMedia, HandleNoExt, Handled, OpenFlag, WriteFlag,
       ConnectFails, Connect, Read, ReadEnds, script, thread, files, vars,
       RestInv, BaseInv, ThreadInv, RarAlone
  <2> QED
    BY <1>3, <2>1 DEF RestInv
<1> QED
  BY <1>1, <1>2, <1>3

\* A rar that runs is the one that was started for the archive in hand.
LEMMA RarStep ==
  ASSUME TypeOK, BaseInv, RarAlone, Rar
  PROVE  /\ state = "unrar" /\ name \in rar /\ rar' = {} /\ Kind[name] = "rar"
         /\ name \in Items /\ name \in Names
         /\ Payload[name] \in Names /\ Payload[name] \notin Items
         /\ \/ downloaded' = [downloaded EXCEPT ![Payload[name]] =
                                Whole(Payload[name], downloaded[name].rel)]
            \/ "rar" \in Faults /\ UNCHANGED downloaded
         /\ UNCHANGED <<script, thread, locked, video, flag, server>>
<1>1. PICK n \in Items : RarEnds(n)
  BY DEF Rar
<1>2. state = "unrar" /\ n = name /\ rar = {name}
  BY <1>1 DEF RarEnds, RarAlone
<1>3. Kind[name] = "rar"
  BY <1>2 DEF BaseInv, UnrarInv
<1> QED
  BY <1>1, <1>2, <1>3, ConstantsAssumption DEF RarEnds

\* Each rar is waited for, or ends with the process that started it.
LEMMA NextRarAlone ==
  ASSUME RarEndsFirst, TypeOK, BaseInv, RarAlone, [Next]_vars \/ Die
  PROVE  RarAlone'
<1>1. CASE Die
  BY <1>1 DEF Die, RarEndsFirst, RarAlone
<1>2. CASE BeginUnrar
  BY <1>2 DEF BeginUnrar, RarAlone, name, Current
<1>3. CASE EndUnrar
  BY <1>3 DEF EndUnrar, RarAlone
<1>4. CASE Rar
  BY <1>4, RarStep DEF RarAlone
<1>5. ASSUME ~Die, ~BeginUnrar, ~EndUnrar, ~Rar, [Next]_vars
      PROVE  UNCHANGED rar /\ (state = "unrar" => UNCHANGED <<state, list, count>>)
  BY <1>5 DEF Next, Timeout, Handling, Download, BEGIN, Crash, HeartbeatFails,
     Publish, stWaitForCheckVersion, NothingToDo, UpdateAnnounced,
     stCheckForDownload, stIsDownloadOver, StartDownload, NotifyServer,
     stDownloadOne, stIsDownloadOK, stNotifyServerOver,
     UnrarNothing, HandleMedia, HandleNoExt, Handled, OpenFlag, WriteFlag,
     ConnectFails, Connect, Read, ReadEnds, script, files, vars,
     BaseInv, ThreadInv
<1> QED
  BY <1>1, <1>2, <1>3, <1>4, <1>5 DEF RarAlone, name, Current

\* While nothing of the updater runs, only the server moves.
LEMMA DownSteps ==
  ASSUME TypeOK, BaseInv, RarAlone, state = "down", state' = "down", [Next]_vars
  PROVE  UNCHANGED <<script, thread, files, announced, finished>>
<1> QED
  BY DEF Next, Timeout, Handling, Rar, RarEnds, Download, BEGIN, Crash, HeartbeatFails,
     Publish, stWaitForCheckVersion, NothingToDo, UpdateAnnounced,
     stCheckForDownload, stIsDownloadOver, StartDownload, NotifyServer,
     stDownloadOne, stIsDownloadOK, stNotifyServerOver, BeginUnrar, EndUnrar,
     UnrarNothing, HandleMedia, HandleNoExt, Handled, OpenFlag, WriteFlag,
     ConnectFails, Connect, Read, ReadEnds, script, thread, files, vars, server,
     BaseInv, ThreadInv, RarAlone

LEMMA MachineInit == SystemInit => MachineInv
  BY DEF SystemInit, Init, C!CoverInit, MachineInv, RestInv, RarAlone, AloneInv,
     SearchInv, AfterKill

\* The updater, which cannot start while autocover is at work.
LEMMA UpdaterMachine ==
  ASSUME UpdaterEnded, RarEndsFirst, SystemTypeOK, BaseInv, MachineInv, Updater
  PROVE  MachineInv'
<1>1. TypeOK /\ [Next]_vars /\ UNCHANGED coverProc
  BY DEF Updater, SystemTypeOK
<1>2. RestInv' /\ RarAlone'
  BY <1>1, NextRest, NextRarAlone DEF MachineInv
<1>3. cover \in AfterKill => state = "down" /\ state' = "down"
  BY DEF MachineInv, AloneInv, Updater, UpdaterEnded, AfterKill
<1>4. AloneInv'
  BY <1>1, <1>3 DEF MachineInv, AloneInv, coverProc
<1>5. cover \in AfterKill => UNCHANGED downloaded
  BY <1>1, <1>3, DownSteps DEF files, MachineInv
<1>6. SearchInv'
  BY <1>1, <1>5 DEF MachineInv, SearchInv, AfterKill, coverProc, Same, C!Present
<1> QED
  BY <1>2, <1>4, <1>6 DEF MachineInv

\* autocover copies and deletes while the updater is down.
LEMMA CoverMachine ==
  ASSUME SystemTypeOK, BaseInv, MachineInv, ReadsWhole, Cover
  PROVE  MachineInv'
<1> USE DEF C!search, C!handles, C!Ended
<1>1. /\ UNCHANGED <<state, list, count, worker, length, closed, locked, rar, video>>
      /\ UNCHANGED <<release, announced, finished>>
  BY DEF Cover, unshared, script, thread, server
<1>2. RestInv' /\ RarAlone'
  BY <1>1 DEF MachineInv, RestInv, RarAlone, name, Current
<1>3. cover \in AfterKill => Held = {} /\ locked = {}
  BY DEF MachineInv, AloneInv, RestInv, RarAlone, Held, Unpacking
<1>4. CASE C!StartCover
  BY <1>1, <1>2, <1>4 DEF MachineInv, AloneInv, SearchInv, AfterKill, C!StartCover
<1>5. CASE C!EndCopyDir
  <2>1. C!Present \subseteq seen
    BY <1>5 DEF C!EndCopyDir, C!EndSearch, MachineInv, SearchInv
  <2>2. \A n \in C!Present \ leaked : Same(n)
    BY <1>5, <2>1 DEF C!EndCopyDir, MachineInv, SearchInv
  <2>3. C!Present' = C!Present /\ \A n \in Names : Same(n)' <=> Same(n)
    BY <1>5 DEF C!EndCopyDir, C!Present, Same
  <2>4. SearchInv'
    BY <1>5, <2>2, <2>3 DEF C!EndCopyDir, C!BeginSearch, SearchInv, C!Present
  <2>5. AloneInv'
    BY <1>1, <1>5 DEF C!EndCopyDir, C!BeginSearch, MachineInv, AloneInv, AfterKill
  <2> QED
    BY <1>2, <2>4, <2>5 DEF MachineInv
<1>6. CASE C!EndDelDir
  BY <1>1, <1>2, <1>6 DEF MachineInv, AloneInv, SearchInv, AfterKill, C!EndDelDir, Same, C!Present
<1>7. CASE C!ClearFlag
  BY <1>1, <1>2, <1>7 DEF MachineInv, AloneInv, SearchInv, AfterKill, C!ClearFlag
<1>8. CASE C!StartProgram
  BY <1>1, <1>2, <1>8 DEF MachineInv, AloneInv, SearchInv, AfterKill, C!StartProgram
<1>9. ASSUME NEW n \in Names, C!BeginCopyFile(n)
      PROVE  MachineInv'
  <2>1. cover = "CopyDir" /\ cover' = "CopyDir" /\ copying = {} /\ n \notin seen
    BY <1>9 DEF C!BeginCopyFile, C!Next1
  <2>2. n \notin Held /\ n \notin locked
    BY <1>3, <2>1 DEF AfterKill
  <2>3. seen' \ (copying' \cup leaked') \subseteq seen \ leaked /\ n \notin seen \ leaked
    BY <1>9, <2>1, <2>2 DEF C!BeginCopyFile, C!Next1
  <2>4. \A m \in Names : m # n => Same(m)' = Same(m)
    BY <1>9 DEF C!BeginCopyFile, Same, SystemTypeOK
  <2>5. \A m \in seen' \ (copying' \cup leaked') : Same(m)'
    BY <2>1, <2>3, <2>4 DEF MachineInv, SearchInv, SystemTypeOK
  <2>6. (\A k, m \in copying' : k = m) /\ UNCHANGED <<downloaded, due>>
    BY <1>9, <2>1 DEF C!BeginCopyFile
  <2>7. SearchInv'
    BY <2>1, <2>5, <2>6 DEF MachineInv, SearchInv, C!Present
  <2>8. AloneInv'
    BY <1>1, <2>1, <2>6 DEF MachineInv, AloneInv, AfterKill
  <2> QED
    BY <1>2, <2>7, <2>8 DEF MachineInv
<1>10. ASSUME NEW n \in Names, C!EndCopyFile(n)
       PROVE  MachineInv'
  <2>1. cover = "CopyDir" /\ cover' = "CopyDir" /\ copying = {n} /\ copying' = {}
    BY <1>10 DEF C!EndCopyFile, MachineInv, AloneInv, SearchInv
  <2>2. UNCHANGED <<downloaded, due, seen>>
    BY <1>10 DEF C!EndCopyFile
  <2>3. \/ leaked' = leaked /\ Same(n)' /\ \A m \in Names \ {n} : Same(m)' = Same(m)
        \/ leaked' = leaked \cup {n} /\ installed' = installed
    BY <1>10 DEF C!EndCopyFile, ReadsWhole, Same, SystemTypeOK
  <2>4. \A m \in seen' \ (copying' \cup leaked') : Same(m)'
    BY <2>1, <2>2, <2>3 DEF MachineInv, SearchInv, SystemTypeOK, Same
  <2>5. SearchInv'
    BY <2>1, <2>2, <2>4 DEF MachineInv, SearchInv, C!Present
  <2>6. AloneInv'
    BY <1>1, <2>1, <2>2 DEF MachineInv, AloneInv, AfterKill
  <2> QED
    BY <1>2, <2>5, <2>6 DEF MachineInv
<1>11. ASSUME NEW n \in Names, C!DeleteFile(n)
       PROVE  MachineInv'
  <2>1. cover = "DelDir" /\ cover' = "DelDir" /\ UNCHANGED <<installed, copying, leaked>>
    BY <1>11 DEF C!DeleteFile
  <2>2. \A m \in C!Present' : m \in C!Present /\ downloaded'[m] = downloaded[m]
    BY <1>11 DEF C!DeleteFile, C!Present, SystemTypeOK, TypeOK
  <2>3. SearchInv'
    BY <2>1, <2>2 DEF MachineInv, SearchInv, Same
  <2>4. AloneInv'
    BY <1>1, <2>1 DEF MachineInv, AloneInv, AfterKill
  <2> QED
    BY <1>2, <2>3, <2>4 DEF MachineInv
<1> QED
  BY <1>4, <1>5, <1>6, <1>7, <1>8, <1>9, <1>10, <1>11 DEF Cover, C!CoverStep

LEMMA SystemMachine ==
  ASSUME UpdaterEnded, RarEndsFirst, ReadsWhole, SystemTypeOK, BaseInv, MachineInv,
         [SystemNext]_allVars
  PROVE  MachineInv'
<1> USE DEF C!search, C!handles, C!Ended
<1>1. CASE Updater
  BY <1>1, UpdaterMachine
<1>2. CASE Cover
  BY <1>2, CoverMachine
<1>3. CASE KillOthers
  <2>1. state' = "down" /\ UNCHANGED downloaded /\ RestInv' /\ RarAlone'
    BY <1>3 DEF KillOthers, UpdaterEnded, RarEndsFirst, Die, MachineInv, RestInv, RarAlone,
         sessionVars, script, thread
  <2>2. /\ cover = "killOthers" /\ UNCHANGED <<installed, copying, leaked>>
        /\ \/ cover' = "CopyDir" /\ due' = C!Present /\ seen' = {}
           \/ cover' = "StartProgram"
    BY <1>3 DEF KillOthers, C!KillOthers, C!BeginSearch
  <2>3. copying = {} /\ leaked = {}
    BY <2>2 DEF MachineInv, AloneInv, AfterKill
  <2>4. C!Present' = C!Present
    BY <2>1 DEF C!Present
  <2>5. AloneInv'
    BY <2>1, <2>2, <2>3 DEF AloneInv, AfterKill
  <2>6. SearchInv'
    BY <2>2, <2>3, <2>4 DEF SearchInv
  <2> QED
    BY <2>1, <2>5, <2>6 DEF MachineInv
<1>4. CASE CoverCrash
  BY <1>4 DEF CoverCrash, C!CoverCrash, sessionVars, script, thread, MachineInv, RestInv, RarAlone,
       AloneInv, C!Present, name, Current,
       SearchInv, AfterKill
<1>5. CASE StartMain
  BY <1>5 DEF StartMain, sessionVars, script, thread, MachineInv, RestInv, RarAlone,
       AloneInv, C!Present, name, Current,
       SearchInv, AfterKill, Same
<1>6. CASE UNCHANGED allVars
  BY <1>6 DEF allVars, sessionVars, coverProc, script, thread, MachineInv, RestInv, RarAlone,
       AloneInv, name, Current,
       SearchInv, AfterKill, C!Present, Same
<1> QED
  BY <1>1, <1>2, <1>3, <1>4, <1>5, <1>6 DEF SystemNext

\* MachineInv holds when autocover works alone and reads what it copies.
LEMMA MachineInvariance ==
  ASSUME UpdaterEnded, RarEndsFirst, ReadsWhole
  PROVE  SystemSpec => [](SystemTypeOK /\ BaseInv /\ MachineInv)
<1>1. ASSUME SystemTypeOK, BaseInv, MachineInv, [SystemNext]_allVars
      PROVE  SystemTypeOK' /\ BaseInv' /\ MachineInv'
  BY <1>1, SystemNextTypes, SystemMachine
<1> QED
  BY <1>1, SystemInitTypes, MachineInit, PTL DEF SystemSpec

\* DelDir removes only what CopyDir has brought to its place, in the same release
\* and length, whichever targets cannot be opened, whichever fwrite, search or
\* deletion fails and whenever either process dies: a copy that fails leaves its
\* source open (main.cpp:234, 242), and an open file is not deleted. It assumes
\* what the code does not look at: that the updater was ended, with rar, and stays
\* down, and that no read and no flush of fclose fails (main.cpp:237, 251).
THEOREM DeletesOnlyInstalled ==
  ASSUME UpdaterEnded, RarEndsFirst, ReadsWhole
  PROVE  SystemSpec => DeletedOnlyWhenInstalled
<1> DEFINE Kept == \A n \in Names :
       cover = "DelDir" /\ cover' = "DelDir" /\ downloaded'[n] # downloaded[n] =>
         installed[n] = downloaded[n]
<1>1. ASSUME SystemTypeOK, BaseInv, MachineInv, [SystemNext]_allVars
      PROVE  [Kept]_allVars
  <2> SUFFICES ASSUME NEW n \in Names, cover = "DelDir", cover' = "DelDir",
                      downloaded'[n] # downloaded[n]
               PROVE  Same(n)
    BY DEF Kept, Same
  <2>1. state = "down" /\ RarAlone
    BY <1>1 DEF MachineInv, AloneInv, AfterKill
  <2>2. CASE Updater
    <3>1. state' = "down"
      BY <2>1, <2>2 DEF Updater, UpdaterEnded
    <3> QED
      BY <1>1, <2>1, <2>2, <3>1, DownSteps DEF Updater, files, SystemTypeOK
  <2>3. CASE Cover
    BY <1>1, <2>3, CoverShared DEF Cover, MachineInv, SearchInv, SystemTypeOK, TypeOK
  <2>4. CASE ~Updater /\ ~Cover
    BY <1>1, <2>4 DEF SystemNext, KillOthers, C!KillOthers, CoverCrash, StartMain, allVars,
         sessionVars
  <2> QED
    BY <2>2, <2>3, <2>4
<1> QED
  BY <1>1, MachineInvariance, PTL DEF SystemSpec, DeletedOnlyWhenInstalled, Kept

-----------------------------------------------------------------------------
(* What the session makes of a list.                                       *)

\* The items of the list.
LEMMA ItemAt ==
  ASSUME TypeOK, NEW i \in 1 .. Len(list)
  PROVE  /\ list[i].name \in Items /\ list[i].name \in Names
         /\ Kind[list[i].name] = "rar" =>
              Payload[list[i].name] \in Names /\ Payload[list[i].name] \notin Items
<1>1. list \in Seq(Item)
  BY DEF TypeOK, Item
<1>2. list[i] \in Item
  BY <1>1
<1> QED
  BY <1>2, ConstantsAssumption DEF Item

\* The steps that change the files of .\downloaded.
LEMMA FileSteps ==
  ASSUME TypeOK, BaseInv, [Next]_vars, ~Connect, ~Read, ~Die, ~Rar,
         ~BeginUnrar, ~EndUnrar, ~UnrarNothing, ~HandleMedia
  PROVE  UNCHANGED downloaded
<1> QED
  BY DEF Next, Timeout, Handling, Download, BEGIN, Crash, HeartbeatFails,
     Publish, stWaitForCheckVersion, NothingToDo, UpdateAnnounced,
     stCheckForDownload, stIsDownloadOver, StartDownload, NotifyServer,
     stDownloadOne, stIsDownloadOK, stNotifyServerOver, HandleNoExt, OpenFlag, WriteFlag,
     ConnectFails, ReadEnds, files, vars

\* The steps after which the thread has a file open.
LEMMA OpenSteps ==
  ASSUME TypeOK, BaseInv, [Next]_vars, ~closed'
  PROVE  Connect \/ Read \/ Rar \/ UNCHANGED <<downloaded, length, closed, list, count>>
<1> QED
  BY DEF Next, Timeout, Handling, Download, BEGIN, Crash, Die, HeartbeatFails,
     Publish, stWaitForCheckVersion, NothingToDo, UpdateAnnounced,
     stCheckForDownload, stIsDownloadOver, StartDownload, NotifyServer,
     stDownloadOne, stIsDownloadOK, stNotifyServerOver, BeginUnrar, EndUnrar, UnrarNothing,
     HandleMedia, HandleNoExt, OpenFlag, WriteFlag,
     ConnectFails, ReadEnds, script, thread, files, vars, BaseInv, ThreadInv

\* The steps into, within and out of the work on a list.
LEMMA FetchedSteps ==
  ASSUME TypeOK, BaseInv, [Next]_vars
  PROVE  /\ state' \in Fetched /\ state \notin Fetched => UpdateAnnounced
         /\ state' \in Fetched /\ state \in Fetched =>
              /\ UNCHANGED <<list, announced>>
              /\ state' # "stNotifyServerOver" =>
                   state # "stNotifyServerOver" /\ UNCHANGED finished
         /\ state' \in {"stCheckVersion", "idle"} =>
              \/ list' = <<>> /\ count' = 0
              \/ state' = state /\ UNCHANGED <<list, count>>
<1> QED
  BY DEF Next, Timeout, Handling, Rar, RarEnds, Download, BEGIN, Crash, Die, HeartbeatFails,
     Publish, stWaitForCheckVersion, NothingToDo, UpdateAnnounced,
     stCheckForDownload, stIsDownloadOver, StartDownload, NotifyServer,
     stDownloadOne, stIsDownloadOK, stNotifyServerOver, BeginUnrar, EndUnrar, UnrarNothing,
     HandleMedia, HandleNoExt, Handled, OpenFlag, WriteFlag, Connect, Read,
     ConnectFails, ReadEnds, script, thread, files, server, vars, BaseInv, ThreadInv,
     Fetched, Scheduled, Inside

\* The lengths on the disk.
LEMMA NextRelease ==
  ASSUME AnswersWhole, TypeOK, BaseInv, ReleaseInv, [Next]_vars \/ Die
  PROVE  ReleaseInv'
<1> DEFINE Sized(n, f) == IF f.rel \in Releases THEN f.len <= Size[n][f.rel] ELSE f.len = 0
<1>1. /\ release' \in Nat /\ release <= release'
      /\ \A n \in Names : downloaded[n].rel \in Nat /\ downloaded[n].len \in Nat
  <2>1. release \in Nat /\ (release' = release \/ release' = release + 1)
    BY DEF TypeOK, Next, Timeout, Handling, Rar, RarEnds, Download, BEGIN, Crash, Die, HeartbeatFails,
     Publish, stWaitForCheckVersion, NothingToDo, UpdateAnnounced,
     stCheckForDownload, stIsDownloadOver, StartDownload, NotifyServer,
     stDownloadOne, stIsDownloadOK, stNotifyServerOver, BeginUnrar, EndUnrar, UnrarNothing,
     HandleMedia, HandleNoExt, OpenFlag, WriteFlag, Connect, Read,
     ConnectFails, ReadEnds, server, vars
  <2> QED
    BY <2>1 DEF TypeOK, File, Releases, Absent
<1>2. SUFFICES ASSUME TRUE
               PROVE  /\ \A n \in Names : downloaded'[n].rel <= release'
                      /\ \A n \in Items : Sized(n, downloaded'[n])
                      /\ ~closed' => /\ downloaded'[name'].rel \in Releases
                                     /\ length' = Size[name'][downloaded'[name'].rel]
  BY DEF ReleaseInv
<1>3. \A n \in Names : downloaded[n].rel <= release
  BY DEF ReleaseInv
<1>4. \A n \in Items : Sized(n, downloaded[n])
  BY DEF ReleaseInv
<1>5. NoFile.rel = 0 /\ \A n : Sized(n, NoFile)
  BY DEF NoFile, Absent, Releases
<1> HIDE DEF Sized
<1>6. CASE Connect
  <2>1. release \in Releases /\ name \in Items /\ name \in Names /\ Size[name][release] \in Nat
    <3>1. count < Len(list) /\ (list # <<>> => release \in Releases)
      BY <1>6 DEF Connect, BaseInv, ListInv, ThreadInv, Downloading
    <3>2. release \in Releases /\ name \in Items /\ name \in Names
      BY <3>1, ItemInHand DEF TypeOK
    <3> QED
      BY <3>2, ConstantsAssumption
  <2>2. downloaded' = [downloaded EXCEPT ![name] = [rel |-> release, len |-> 0]]
    BY <1>6 DEF Connect
  <2>3. length' = Size[name][release] /\ name' = name /\ release' = release
    BY <1>6 DEF Connect, AnswersWhole, script, server, name, Current
  <2>4. Sized(name, [rel |-> release, len |-> 0])
    BY <2>1 DEF Sized
  <2> QED
    BY <1>1, <1>3, <1>4, <2>1, <2>2, <2>3, <2>4 DEF TypeOK
<1>7. CASE Read
  <2>1. ~closed /\ name \in Items /\ name \in Names /\ downloaded[name].rel \in Releases
    BY <1>7, ItemInHand DEF Read, BaseInv, ListInv, ThreadInv, Downloading, ReleaseInv
  <2>2. downloaded' = [downloaded EXCEPT ![name].len = downloaded[name].len + 1]
    BY <1>7 DEF Read
  <2>3. downloaded'[name].rel = downloaded[name].rel
    BY <2>1, <2>2 DEF TypeOK, File
  <2>4. downloaded'[name].len <= Size[name][downloaded[name].rel]
    BY <1>7, <2>1, <2>2 DEF Read, TypeOK, File
  <2>5. Sized(name, downloaded'[name])
    BY <2>1, <2>3, <2>4 DEF Sized
  <2>6. \A n \in Names : n # name => downloaded'[n] = downloaded[n]
    BY <2>1, <2>2 DEF TypeOK
  <2>7. \A n \in Names : downloaded'[n].rel <= release'
    BY <1>1, <1>3, <2>3, <2>6 DEF TypeOK
  <2>8. \A n \in Items : Sized(n, downloaded'[n])
    BY <1>4, <2>5, <2>6, ConstantsAssumption
  <2>9. length' = length /\ name' = name /\ length = Size[name][downloaded[name].rel]
    BY <1>7, <2>1 DEF Read, script, name, Current, ReleaseInv
  <2> QED
    BY <2>1, <2>3, <2>7, <2>8, <2>9
<1>8. ASSUME ~Connect, ~Read, ~Rar
      PROVE  ~closed' => /\ downloaded'[name'].rel \in Releases
                         /\ length' = Size[name'][downloaded'[name'].rel]
  <2>1. CASE Die
    BY <2>1 DEF Die
  <2>2. CASE [Next]_vars
    BY <1>8, <2>2, OpenSteps DEF ReleaseInv, name, Current
  <2> QED
    BY <2>1, <2>2
<1>9. ASSUME state \in InHand
      PROVE  /\ name \in Items /\ name \in Names
             /\ Kind[name] = "rar" => Payload[name] \in Names /\ Payload[name] \notin Items
  BY <1>9, ItemInHand, ConstantsAssumption DEF BaseInv, ListInv
<1>10. ASSUME NEW a \in Items, Kind[a] = "rar", NEW k \in Nat,
              downloaded' = [downloaded EXCEPT ![Payload[a]] = [rel |-> downloaded[a].rel, len |-> k]]
       PROVE  /\ \A n \in Names : downloaded'[n].rel <= release'
              /\ \A n \in Items : Sized(n, downloaded'[n])
  <2>1. a \in Names /\ Payload[a] \in Names /\ Payload[a] \notin Items
    BY <1>10, ConstantsAssumption
  <2>2. /\ downloaded'[Payload[a]].rel = downloaded[a].rel
        /\ \A n \in Names : n # Payload[a] => downloaded'[n] = downloaded[n]
    BY <1>10, <2>1 DEF TypeOK
  <2>3. \A n \in Names : downloaded[n].rel <= release'
    BY SMTT(30), <1>1, <1>3 DEF TypeOK
  <2>4. \A n \in Names : downloaded'[n].rel <= release'
    BY <2>1, <2>2, <2>3
  <2> QED
    BY <1>4, <2>1, <2>2, <2>4, ConstantsAssumption
<1>11. ASSUME downloaded' = Removed(downloaded), state \in InHand
       PROVE  /\ \A n \in Names : downloaded'[n].rel <= release'
              /\ \A n \in Items : Sized(n, downloaded'[n])
  BY <1>1, <1>3, <1>4, <1>5, <1>9, <1>11, ConstantsAssumption DEF Removed, TypeOK
<1>12. ASSUME UNCHANGED downloaded
       PROVE  /\ \A n \in Names : downloaded'[n].rel <= release'
              /\ \A n \in Items : Sized(n, downloaded'[n])
  BY <1>1, <1>3, <1>4, <1>12 DEF TypeOK
<1>15. BeginUnrar \/ UnrarNothing \/ HandleMedia => ~Connect /\ ~Read /\ ~Rar
  BY DEF BaseInv, ThreadInv, Connect, Read, Rar, RarEnds, BeginUnrar, UnrarNothing, HandleMedia, script
<1>20. EndUnrar => ~Connect /\ ~Read /\ ~Rar
  BY DEF BaseInv, ThreadInv, Connect, Read, Rar, RarEnds, EndUnrar, Handled, script
<1>16. CASE Die
  BY <1>8, <1>12, <1>16 DEF Die
<1>17. CASE BeginUnrar
  <2>1. /\ state \in InHand /\ Kind[name] = "rar"
        /\ downloaded' = [downloaded EXCEPT ![Payload[name]] =
                            [rel |-> downloaded[name].rel, len |-> 0]]
    BY <1>17 DEF BeginUnrar, InHand
  <2> QED
    BY <1>8, <1>9, <1>10, <1>15, <1>17, <2>1
<1>18. CASE Rar
  <2>1. PICK a \in Items : RarEnds(a)
    BY <1>18 DEF Rar
  <2>2. Kind[a] = "rar" /\ downloaded[a].rel \in Releases /\ Payload[a] \in Names
    BY <2>1, ConstantsAssumption DEF RarEnds, BaseInv, UnrarInv
  <2>3. downloaded' = [downloaded EXCEPT ![Payload[a]] =
                         [rel |-> downloaded[a].rel,
                          len |-> Size[Payload[a]][downloaded[a].rel]]]
    BY <2>1 DEF RarEnds, AnswersWhole, Whole
  <2>4. Size[Payload[a]][downloaded[a].rel] \in Nat
    BY <2>2, ConstantsAssumption
  <2>5. UNCHANGED <<state, list, count, length, closed>>
    BY <2>1 DEF RarEnds, script, thread
  <2>6. /\ \A n \in Names : downloaded'[n].rel <= release'
        /\ \A n \in Items : Sized(n, downloaded'[n])
    BY <1>10, <2>2, <2>3, <2>4
  <2>7. ~closed => name \in Items
    BY ItemInHand DEF BaseInv, ListInv, ThreadInv, Downloading
  <2>8. \A n \in Items : downloaded'[n] = downloaded[n]
    BY <2>2, <2>3, ConstantsAssumption DEF TypeOK
  <2>9. ~closed' => /\ downloaded'[name'].rel \in Releases
                    /\ length' = Size[name'][downloaded'[name'].rel]
    BY <2>5, <2>7, <2>8 DEF ReleaseInv, name, Current
  <2> QED
    BY <2>6, <2>9
<1>19. CASE EndUnrar \/ UnrarNothing \/ HandleMedia
  <2>1. downloaded' = Removed(downloaded) /\ state \in InHand
    BY <1>19 DEF EndUnrar, UnrarNothing, HandleMedia, InHand
  <2> QED
    BY <1>8, <1>11, <1>15, <1>19, <1>20, <2>1
<1> QED
  BY <1>6, <1>7, <1>8, <1>12, <1>16, <1>17, <1>18, <1>19, FileSteps

\* Where the list comes from.
LEMMA NextRound ==
  ASSUME AnswersWhole, TypeOK, BaseInv, RoundInv, [Next]_vars
  PROVE  RoundInv'
<1>1. (state \in {"stCheckVersion", "idle"} => list = <<>> /\ count = 0)'
  BY FetchedSteps DEF RoundInv
<1>2. ASSUME state' \in Fetched, state \in Fetched
      PROVE  /\ announced' \in Releases /\ list' = AnnouncedList(announced')
             /\ state' # "stNotifyServerOver" => finished' < announced'
  BY <1>2, FetchedSteps DEF RoundInv
<1>3. ASSUME state' \in Fetched, state \notin Fetched
      PROVE  /\ announced' \in Releases /\ list' = AnnouncedList(announced')
             /\ finished' < announced'
  <2>1. UpdateAnnounced
    BY <1>3, FetchedSteps
  <2>2. release \in Releases /\ announced' = release /\ finished' < release
    BY <2>1, ConstantsAssumption DEF UpdateAnnounced, TypeOK, Releases
  <2>3. Received(release) = {AnnouncedList(release)}
    BY DEF AnswersWhole, Received, AnnouncedList
  <2>4. list = <<>> /\ list' = list \o AnnouncedList(release)
    BY <2>1, <2>3 DEF UpdateAnnounced, RoundInv
  <2>5. AnnouncedList(release) \in Seq(Item)
    BY <2>2, <2>3, ReceivedType
  <2>6. list' = AnnouncedList(release)
    BY <2>4, <2>5
  <2> QED
    BY <2>2, <2>6
<1> QED
  BY <1>1, <1>2, <1>3 DEF RoundInv

\* What is handed over is the whole file, of the announced release or a newer one:
\* with a part of it, or an older one, the length would not fit.
LEMMA GoodInHand ==
  ASSUME LengthsTell, TypeOK, BaseInv, HandInv, ReleaseInv, RoundInv, NewerInv,
         state = "HandleDownoadedFile"
  PROVE  name \notin locked /\ Arrived(downloaded[name], name, announced)
<1>1. count < Len(list) /\ name \in Items /\ name \in Names
  BY ItemInHand DEF BaseInv, ListInv, InHand
<1>2. state \in Fetched /\ announced \in Releases /\ list = AnnouncedList(announced)
  BY DEF RoundInv, Fetched, Inside
<1>3. Current.size = Size[name][announced]
  <2>1. count + 1 \in 1 .. Len(Manifest[announced])
    BY <1>1, <1>2, ConstantsAssumption DEF AnnouncedList, TypeOK
  <2>2. Current = Line(Manifest[announced][count + 1], announced)
    BY <1>2, <2>1 DEF Current, AnnouncedList
  <2> QED
    BY <2>2 DEF Line, name
<1> DEFINE r == downloaded[name].rel
           k == downloaded[name].len
<1>5. Size[name][announced] \in Nat \ {0}
  BY <1>1, <1>2, ConstantsAssumption DEF LengthsTell
<1>4. name \notin locked /\ k = Size[name][announced]
  BY <1>3, <1>5 DEF HandInv
<1>6. r \in Releases /\ k <= Size[name][r]
  BY <1>1, <1>4, <1>5 DEF ReleaseInv
<1>7. ~(r < announced)
  <2>1. ASSUME r < announced PROVE FALSE
    <3>1. Size[name][r] < Size[name][announced] /\ Size[name][r] \in Nat
      BY <1>1, <1>2, <1>6, <2>1, ConstantsAssumption DEF LengthsTell
    <3> QED
      BY <1>4, <1>5, <1>6, <3>1
  <2> QED
    BY <2>1
<1>8. r > announced => IsWhole(name, downloaded[name])
  BY <1>1, <1>2, <1>4 DEF NewerInv
<1>9. r = announced => IsWhole(name, downloaded[name])
  BY <1>4, <1>6 DEF IsWhole
<1>10. r \in Int /\ announced \in Int
  BY <1>2, <1>6 DEF Releases
<1> QED
  BY <1>4, <1>7, <1>8, <1>9, <1>10 DEF Arrived

\* A newer file than the list's, not whole, is the one the thread still holds.
LEMMA NextNewer ==
  ASSUME AnswersWhole, TypeOK, BaseInv, ReleaseInv, RoundInv, NewerInv, [Next]_vars
  PROVE  NewerInv'
<1> SUFFICES ASSUME state' \in Fetched, NEW n \in Items, downloaded'[n].rel > announced'
             PROVE  n \in locked' \/ IsWhole(n, downloaded'[n])
  BY DEF NewerInv
<1>1. n \in Names
  BY ConstantsAssumption
<1>2. state \in Fetched /\ UNCHANGED <<list, announced>>
  <2>1. CASE UpdateAnnounced
    <3>1. downloaded'[n].rel = downloaded[n].rel /\ announced' = release
      BY <2>1 DEF UpdateAnnounced, files
    <3>2. downloaded[n].rel <= release /\ downloaded[n].rel \in Nat /\ release \in Nat
      BY <1>1 DEF ReleaseInv, TypeOK, File, Releases, Absent
    <3> QED
      BY <3>1, <3>2
  <2> QED
    BY <2>1, FetchedSteps
<1>3. downloaded[n].rel > announced => n \in locked \/ IsWhole(n, downloaded[n])
  BY <1>2 DEF NewerInv
<1>4. NoFile.rel = 0 /\ announced \in Releases
  BY <1>2 DEF NoFile, Absent, RoundInv
<1>5. CASE Connect
  BY <1>1, <1>2, <1>3, <1>5 DEF Connect, TypeOK
<1>6. CASE Read
  <2>1. ~closed /\ name \in locked /\ name \in Names /\ downloaded[name].rel \in Releases
        /\ length = Size[name][downloaded[name].rel] /\ name \in Items
    BY <1>6, ItemInHand DEF Read, BaseInv, ListInv, ThreadInv, Downloading, ReleaseInv
  <2>2. CASE n = name /\ closed'
    <3>1. downloaded'[n].rel = downloaded[n].rel /\ downloaded'[n].len = downloaded[n].len + 1
      BY <1>1, <1>6, <2>2 DEF Read, TypeOK, File
    <3>2. /\ downloaded[n].len + 1 >= length
          /\ downloaded[n].len + 1 <= Size[n][downloaded[n].rel]
      BY <1>6, <2>2 DEF Read
    <3>3. downloaded[n].len + 1 \in Nat /\ Size[n][downloaded[n].rel] \in Nat
      BY <1>1, <2>1, <2>2, ConstantsAssumption DEF TypeOK, File
    <3>4. downloaded'[n].len = Size[n][downloaded[n].rel]
      BY <2>1, <2>2, <3>1, <3>2, <3>3
    <3> QED
      BY <2>1, <2>2, <3>1, <3>4 DEF IsWhole
  <2>3. CASE n = name /\ ~closed'
    BY <1>6, <2>1, <2>3 DEF Read
  <2>4. CASE n # name
    <3>1. downloaded'[n] = downloaded[n] /\ (n \in locked => n \in locked')
      BY <1>1, <1>6, <2>1, <2>4 DEF Read, TypeOK
    <3> QED
      BY <1>2, <1>3, <3>1
  <2> QED
    BY <2>2, <2>3, <2>4
<1>11. CASE Rar
  <2>1. PICK a \in Items : RarEnds(a)
    BY <1>11 DEF Rar
  <2>2. Payload[a] \notin Items
    BY <2>1, ConstantsAssumption DEF RarEnds, BaseInv, UnrarInv
  <2>3. downloaded'[n] = downloaded[n] /\ locked' = locked
    BY <1>1, <2>1, <2>2 DEF RarEnds, TypeOK
  <2> QED
    BY <1>2, <1>3, <2>3
<1>7. ASSUME ~Connect, ~Read
      PROVE  locked' = locked
  BY <1>2, <1>7 DEF Fetched, Scheduled, Inside, Next, Timeout, Handling, Rar, RarEnds, Download, BEGIN, Crash, Die,
     HeartbeatFails, Publish, stWaitForCheckVersion, NothingToDo, UpdateAnnounced,
     stCheckForDownload, stIsDownloadOver, StartDownload, NotifyServer,
     stDownloadOne, stIsDownloadOK, stNotifyServerOver, BeginUnrar, EndUnrar, UnrarNothing,
     HandleMedia, HandleNoExt, Handled, OpenFlag, WriteFlag,
     ConnectFails, ReadEnds, files, vars
<1>8. state \in InHand /\ Kind[name] = "rar" => Payload[name] \notin Items
  BY ItemInHand, ConstantsAssumption DEF BaseInv, ListInv, InHand
<1>9. ~Die
  BY DEF Die, Fetched, Scheduled, Inside
<1>10. CASE BeginUnrar \/ EndUnrar \/ UnrarNothing \/ HandleMedia
  <2>1. ~Connect /\ ~Read
    BY <1>10 DEF BeginUnrar, EndUnrar, UnrarNothing, HandleMedia, BaseInv, ThreadInv, Connect, Read
  <2>2. state \in InHand /\ (state = "unrar" => Kind[name] = "rar")
    BY <1>10 DEF BeginUnrar, EndUnrar, UnrarNothing, HandleMedia, InHand, BaseInv, UnrarInv
  <2>3. downloaded'[n] = downloaded[n] \/ downloaded'[n] = NoFile
    BY <1>1, <1>8, <1>10, <2>2
       DEF BeginUnrar, EndUnrar, UnrarNothing, HandleMedia, Removed, TypeOK
  <2> QED
    BY <1>2, <1>3, <1>4, <1>7, <2>1, <2>3 DEF Releases
<1> QED
  BY <1>2, <1>3, <1>5, <1>6, <1>7, <1>9, <1>10, <1>11, FileSteps

\* The archive rar reads stays what it was when it was handed over.
LEMMA NextUnpack ==
  ASSUME AnswersWhole, LengthsTell, TypeOK, BaseInv, HandInv, RarAlone, ReleaseInv, RoundInv,
         NewerInv, UnpackInv, [Next]_vars
  PROVE  UnpackInv'
<1> SUFFICES ASSUME state' = "unrar"
             PROVE  (/\ name \notin locked /\ Arrived(downloaded[name], name, announced)
                     /\ name \in rar \/ Arrived(downloaded[Payload[name]], Payload[name], announced))'
  BY DEF UnpackInv
<1>1. CASE BeginUnrar
  <2>1. name \notin locked /\ Arrived(downloaded[name], name, announced)
    BY <1>1, GoodInHand DEF BeginUnrar
  <2>2. Payload[name] # name /\ name \in Names
    BY <1>1, ItemInHand, ConstantsAssumption DEF BeginUnrar, BaseInv, ListInv, InHand
  <2>3. downloaded'[name] = downloaded[name] /\ name \in rar'
    BY <1>1, <2>2 DEF BeginUnrar, TypeOK
  <2> QED
    BY <1>1, <2>1, <2>3 DEF BeginUnrar, server, name, Current
<1>2. CASE Rar
  <2> DEFINE p == Payload[name]
  <2>1. /\ state = "unrar" /\ name \in Names /\ p \in Names /\ p # name
        /\ downloaded' = [downloaded EXCEPT ![p] = Whole(p, downloaded[name].rel)]
        /\ UNCHANGED <<list, count, locked, announced>>
    BY <1>2, RarStep DEF AnswersWhole, script, server
  <2>2. name \notin locked /\ Arrived(downloaded[name], name, announced)
    BY <2>1 DEF UnpackInv
  <2> HIDE DEF p
  <2>3. downloaded'[name] = downloaded[name] /\ downloaded'[p] = Whole(p, downloaded[name].rel)
    BY <2>1 DEF TypeOK
  <2>4. Arrived(downloaded'[p], p, announced)
    BY <2>2, <2>3 DEF Arrived, IsWhole, Whole
  <2>5. name' = name /\ Payload[name'] = p
    BY <2>1 DEF name, Current, p
  <2> QED
    BY <2>1, <2>2, <2>3, <2>4, <2>5
<1>3. CASE ~BeginUnrar /\ ~Rar
  <2>1. state = "unrar" /\ UNCHANGED <<downloaded, locked, rar, list, count, announced>>
    BY <1>3 DEF Next, Timeout, Handling, Download, BEGIN, Crash, Die, HeartbeatFails,
     Publish, stWaitForCheckVersion, NothingToDo, UpdateAnnounced,
     stCheckForDownload, stIsDownloadOver, StartDownload, NotifyServer,
     stDownloadOne, stIsDownloadOK, stNotifyServerOver, EndUnrar,
     UnrarNothing, HandleMedia, HandleNoExt, Handled, OpenFlag, WriteFlag,
     ConnectFails, Connect, Read, ReadEnds, script, thread, files, vars, server,
     BaseInv, ThreadInv
  <2> QED
    BY <2>1 DEF UnpackInv, name, Current
<1> QED
  BY <1>1, <1>2, <1>3

\* Item i of the list is through.
Through(i) ==
  LET n == list[i].name
  IN  /\ Kind[n] = "rar" =>
           Emerging(n) \/ Arrived(downloaded[Payload[n]], Payload[n], announced)
      /\ Kind[n] = "noext" =>
           Fetching(n) \/ Arrived(downloaded[n], n, announced)

\* The steps that count an item.
LEMMA CountSteps ==
  ASSUME TypeOK, BaseInv, [Next]_vars, state \in Fetched, state' \in Fetched
  PROVE  \/ EndUnrar \/ UnrarNothing \/ HandleMedia \/ HandleNoExt
         \/ count' = count
<1> QED
  BY DEF Next, Timeout, Handling, Rar, RarEnds, Download, BEGIN, Crash, Die, HeartbeatFails,
     Publish, stWaitForCheckVersion, NothingToDo, UpdateAnnounced,
     stCheckForDownload, stIsDownloadOver, StartDownload, NotifyServer,
     stDownloadOne, stIsDownloadOK, stNotifyServerOver, BeginUnrar, OpenFlag, WriteFlag,
     ConnectFails, Connect, Read, ReadEnds, script, vars, Fetched, Scheduled, Inside

\* An item being fetched again goes on being fetched, until it is handled.
LEMMA FetchingSteps ==
  ASSUME TypeOK, BaseInv, [Next]_vars, state \in Fetched, state' \in Fetched, count' = count,
         ~BeginUnrar, NEW n
  PROVE  (Fetching(n) => Fetching(n)') /\ (Emerging(n) => Emerging(n)')
<1>1. list' = list
  BY FetchedSteps
<1>2. state \in Downloading \cup {"HandleDownoadedFile"} =>
        state' \in Downloading \cup {"HandleDownoadedFile"}
  BY DEF Next, Timeout, Handling, Rar, RarEnds, Download, BEGIN, Crash, Die, HeartbeatFails,
     Publish, stWaitForCheckVersion, NothingToDo, UpdateAnnounced,
     stCheckForDownload, stIsDownloadOver, StartDownload, NotifyServer,
     stDownloadOne, stIsDownloadOK, stNotifyServerOver, EndUnrar, UnrarNothing, HandleMedia,
     HandleNoExt, Handled, OpenFlag, WriteFlag, TypeOK,
     ConnectFails, Connect, Read, ReadEnds, script, vars, Fetched, Scheduled, Inside, Downloading,
     BaseInv, ThreadInv
<1>3. state = "unrar" => state' = "unrar"
  BY DEF Next, Timeout, Handling, Rar, RarEnds, Download, BEGIN, Crash, Die, HeartbeatFails,
     Publish, stWaitForCheckVersion, NothingToDo, UpdateAnnounced,
     stCheckForDownload, stIsDownloadOver, StartDownload, NotifyServer,
     stDownloadOne, stIsDownloadOK, stNotifyServerOver, EndUnrar, UnrarNothing, HandleMedia,
     HandleNoExt, Handled, OpenFlag, WriteFlag, TypeOK,
     ConnectFails, Connect, Read, ReadEnds, script, vars, Fetched, Scheduled, Inside,
     BaseInv, ThreadInv
<1>4. name' = name
  BY <1>1 DEF name, Current
<1> QED
  BY <1>2, <1>3, <1>4 DEF Fetching, Emerging

\* What was handled stays handled, and what is counted has been handled.
LEMMA NextHandled ==
  ASSUME AnswersWhole, LengthsTell, TypeOK, BaseInv, HandInv, RarAlone, ReleaseInv, RoundInv,
         NewerInv, UnpackInv, HandledInv, [Next]_vars
  PROVE  HandledInv'
<1> SUFFICES ASSUME state' \in Fetched, NEW i \in 1 .. count' PROVE Through(i)'
  BY DEF HandledInv, Through
<1>1. CASE UpdateAnnounced
  BY <1>1 DEF UpdateAnnounced, RoundInv
<1>2. CASE ~UpdateAnnounced
  <2>1. state \in Fetched /\ UNCHANGED <<list, announced>>
    BY <1>2, FetchedSteps
  <2>2. \A j \in 1 .. count : Through(j)
    BY <2>1 DEF HandledInv, Through
  <2>3. count \in Nat /\ count <= Len(list)
    BY DEF TypeOK, BaseInv, ListInv
  <2>4. ~Die
    BY DEF Die, Fetched, Scheduled, Inside
  <2> DEFINE n == list[i].name
  <2>5. ASSUME i \in 1 .. Len(list)
        PROVE  /\ n \in Items /\ n \in Names
               /\ Kind[n] = "rar" => Payload[n] \in Names /\ Payload[n] \notin Items
    BY <2>5, ItemAt
  <2>6. n' = n
    BY <2>1
  <2>7. ASSUME state \in InHand
        PROVE  /\ count < Len(list) /\ name \in Items /\ name \in Names /\ list[count + 1].name = name
               /\ Kind[name] = "rar" => Payload[name] \in Names /\ Payload[name] \notin Items
    BY <2>7, ItemInHand, ConstantsAssumption DEF BaseInv, ListInv, name, Current
  <2> HIDE DEF n
  <2>8. ASSUME UNCHANGED downloaded, count' = count, ~BeginUnrar
        PROVE  Through(i)'
    BY <2>1, <2>2, <2>6, <2>8, FetchingSteps DEF Through, n
  <2>9. ASSUME count' = count, ~BeginUnrar, Connect \/ Read
        PROVE  Through(i)'
    <3>1. /\ name \in Items /\ name \in Names /\ Fetching(name)
          /\ \A m \in Names : m # name => downloaded'[m] = downloaded[m]
      BY <2>9, ItemInHand DEF Connect, Read, BaseInv, ListInv, ThreadInv, Fetching, Downloading, TypeOK
    <3>2. n \in Items /\ n \in Names
          /\ (Kind[n] = "rar" => Payload[n] \in Names /\ Payload[n] \notin Items)
      BY <2>3, <2>5, <2>9
    <3>3. Kind[n] = "rar" => downloaded'[Payload[n]] = downloaded[Payload[n]]
      BY <3>1, <3>2
    <3>4. Kind[n] = "noext" => downloaded'[n] = downloaded[n] \/ Fetching(n)
      BY <3>1, <3>2
    <3>5. Through(i)
      BY <2>2, <2>9
    <3> QED
      BY <2>1, <2>6, <2>9, <3>3, <3>4, <3>5, FetchingSteps DEF Through, n
  <2>10. CASE BeginUnrar
    <3>1. state \in InHand /\ Kind[name] = "rar" /\ count' = count /\ name' = name
      BY <2>10 DEF BeginUnrar, InHand, name, Current
    <3>2. \A m \in Names : m # Payload[name] => downloaded'[m] = downloaded[m]
      BY <2>10 DEF BeginUnrar, TypeOK
    <3>3. n \in Items /\ n \in Names
          /\ (Kind[n] = "rar" => Payload[n] \in Names /\ Payload[n] \notin Items)
      BY <2>3, <2>5, <3>1
    <3>4. Through(i) /\ ~Emerging(n) /\ (Fetching(n) => Kind[n] = "rar")
      BY <2>2, <2>10, <3>1 DEF Emerging, Fetching, BeginUnrar
    <3>5. Kind[n] = "rar" => \/ Emerging(n)'
                            \/ downloaded'[Payload[n]] = downloaded[Payload[n]]
      BY <2>6, <2>10, <3>1, <3>2, <3>3 DEF Emerging, BeginUnrar
    <3>6. Kind[n] = "noext" => downloaded'[n] = downloaded[n]
      BY <2>7, <3>1, <3>2, <3>3
    <3> QED
      BY <2>1, <2>6, <3>4, <3>5, <3>6 DEF Through, n
  <2>11. CASE EndUnrar
    <3> DEFINE p == Payload[name]
    <3>1. state = "unrar" /\ state \in InHand /\ Kind[name] = "rar" /\ count' = count + 1
          /\ name \notin rar /\ downloaded' = Removed(downloaded)
      BY <2>11 DEF EndUnrar, Handled, InHand, BaseInv, UnrarInv
    <3>2. Removed(downloaded) = [downloaded EXCEPT ![name] = NoFile]
      BY <3>1 DEF UnpackInv, Removed
    <3>3. p \in Names /\ p \notin Items /\ name \in Names /\ name \in Items
      BY <2>7, <3>1
    <3>5. Arrived(downloaded[p], p, announced)
      BY <3>1 DEF UnpackInv
    <3> HIDE DEF p
    <3>4. \A m \in Names : m # name => downloaded'[m] = downloaded[m]
      BY <3>1, <3>2, <3>3 DEF TypeOK
    <3>6. i \in 1 .. Len(list) /\ (i \in 1 .. count \/ n = name)
      BY <2>3, <2>7, <3>1 DEF n
    <3>7. n \in Items /\ n \in Names
          /\ (Kind[n] = "rar" => Payload[n] \in Names /\ Payload[n] \notin Items)
      BY <2>5, <3>6
    <3>8. ASSUME Kind[n] = "rar"
          PROVE  Arrived(downloaded'[Payload[n]], Payload[n], announced')
      <4>1. CASE Payload[n] = p
        BY <2>1, <3>3, <3>4, <3>5, <4>1
      <4>2. CASE Payload[n] # p
        <5>1. i \in 1 .. count /\ Payload[n] # name
          BY <3>3, <3>6, <3>7, <3>8, <4>2 DEF p
        <5>2. Arrived(downloaded[Payload[n]], Payload[n], announced)
          BY <2>2, <3>8, <4>2, <5>1 DEF Through, Emerging, n, p
        <5> QED
          BY <2>1, <3>4, <3>7, <3>8, <4>2, <5>1, <5>2
      <4> QED
        BY <4>1, <4>2
    <3>9. ASSUME Kind[n] = "noext"
          PROVE  Arrived(downloaded'[n], n, announced')
      <4>1. n # name /\ n # p /\ i \in 1 .. count
        BY <3>1, <3>3, <3>6, <3>7, <3>9
      <4>2. Arrived(downloaded[n], n, announced)
        BY <2>2, <3>1, <3>9, <4>1 DEF Through, Fetching, n, Downloading
      <4> QED
        BY <2>1, <3>4, <3>7, <4>1, <4>2
    <3> QED
      BY <2>6, <3>8, <3>9 DEF Through, n
  <2>12. CASE UnrarNothing
    <3>1. name \notin locked /\ Arrived(downloaded[name], name, announced)
      BY <2>12, GoodInHand DEF UnrarNothing
    <3>2. name \in Items /\ rar = {}
      BY <2>7, <2>12 DEF UnrarNothing, InHand, RarAlone
    <3>3. Intact(name) /\ downloaded[name].len > 0
      BY <3>1, <3>2 DEF Intact, Arrived, IsWhole, LengthsTell
    <3> QED
      BY <2>12, <3>2, <3>3 DEF UnrarNothing, Unpackable, Unpacking
  <2>13. CASE HandleMedia \/ HandleNoExt
    <3>1. state = "HandleDownoadedFile" /\ state \in InHand /\ count' = count + 1
      BY <2>13 DEF HandleMedia, HandleNoExt, Handled, InHand
    <3>2. Arrived(downloaded[name], name, announced)
      BY <3>1, GoodInHand
    <3>3. i \in 1 .. Len(list) /\ (i \in 1 .. count \/ n = name)
      BY <2>3, <2>7, <3>1 DEF n
    <3>4. n \in Items /\ n \in Names
          /\ (Kind[n] = "rar" => Payload[n] \in Names /\ Payload[n] \notin Items)
      BY <2>5, <3>3
    <3>5. /\ Kind[name] \in {"media", "noext"}
          /\ \A m \in Names : (m = name => Kind[name] = "noext") => downloaded'[m] = downloaded[m]
      BY <2>13 DEF HandleMedia, HandleNoExt, Removed, files, TypeOK
    <3>6. ASSUME Kind[n] = "rar"
          PROVE  Arrived(downloaded'[Payload[n]], Payload[n], announced')
      <4>1. i \in 1 .. count /\ Payload[n] # name
        BY <2>7, <3>1, <3>3, <3>4, <3>5, <3>6
      <4>2. Arrived(downloaded[Payload[n]], Payload[n], announced)
        BY <2>2, <3>1, <3>6, <4>1 DEF Through, Emerging, n
      <4> QED
        BY <2>1, <3>4, <3>5, <3>6, <4>1, <4>2
    <3>7. ASSUME Kind[n] = "noext"
          PROVE  Arrived(downloaded'[n], n, announced')
      <4>1. Arrived(downloaded[n], n, announced)
        BY <2>2, <3>2, <3>3, <3>7 DEF Through, Fetching, n
      <4> QED
        BY <2>1, <3>4, <3>5, <3>7, <4>1
    <3> QED
      BY <2>6, <3>6, <3>7 DEF Through, n
  <2>14. CASE UNCHANGED downloaded
    BY <2>1, <2>8, <2>10, <2>11, <2>12, <2>13, <2>14, CountSteps
  <2>15. CASE Rar
    <3> DEFINE p == Payload[name]
    <3>1. /\ state = "unrar" /\ p \in Names /\ p \notin Items
          /\ downloaded' = [downloaded EXCEPT ![p] = Whole(p, downloaded[name].rel)]
          /\ UNCHANGED <<state, list, count>> /\ name' = name
      BY <2>15, RarStep DEF AnswersWhole, script, name, Current
    <3>2. \A m \in Names : m # p => downloaded'[m] = downloaded[m]
      BY <3>1 DEF TypeOK
    <3>3. Through(i) /\ ~Fetching(n)
      BY <2>2, <3>1 DEF Fetching, Downloading
    <3>4. n \in Items /\ n \in Names
          /\ (Kind[n] = "rar" => Payload[n] \in Names /\ Payload[n] \notin Items)
      BY <2>3, <2>5, <3>1
    <3>5. Kind[n] = "rar" => \/ Emerging(n)'
                            \/ downloaded'[Payload[n]] = downloaded[Payload[n]]
      BY <2>6, <3>1, <3>2, <3>4 DEF Emerging
    <3>6. Kind[n] = "noext" => downloaded'[n] = downloaded[n]
      BY <3>1, <3>2, <3>4
    <3>7. Emerging(n) => Emerging(n)'
      BY <3>1, <2>6 DEF Emerging
    <3> HIDE DEF p
    <3> QED
      BY <2>1, <2>6, <3>3, <3>5, <3>6, <3>7 DEF Through, n
  <2> QED
    BY <2>1, <2>4, <2>9, <2>10, <2>11, <2>12, <2>13, <2>14, <2>15, CountSteps, FileSteps
<1> QED
  BY <1>1, <1>2

-----------------------------------------------------------------------------
(* No reported file is lost.                                               *)

\* All that a state of the system satisfies.
SystemInv == SystemTypeOK /\ BaseInv /\ MachineInv /\ FilesInv /\ LossInv

\* What a release installs is on its list.
LEMMA InstallsListed ==
  ASSUME TypeOK, NEW r \in Releases, list = AnnouncedList(r), NEW n \in Installs(r)
  PROVE  \E i \in 1 .. Len(list) :
           \/ Kind[list[i].name] = "rar" /\ n = Payload[list[i].name]
           \/ Kind[list[i].name] = "noext" /\ n = list[i].name
<1>1. PICK i \in 1 .. Len(Manifest[r]) :
         \/ Kind[Manifest[r][i]] = "rar" /\ n = Payload[Manifest[r][i]]
         \/ Kind[Manifest[r][i]] = "noext" /\ n = Manifest[r][i]
  BY DEF Installs
<1>2. Len(list) = Len(Manifest[r]) /\ list[i].name = Manifest[r][i]
  BY ConstantsAssumption DEF AnnouncedList, Line
<1> QED
  BY <1>1, <1>2

\* The script tells the server when no item is left.
LEMMA AllCounted ==
  ASSUME TypeOK, BaseInv, NotifyServer, stIsDownloadOver \/ stNotifyServerOver
  PROVE  count = Len(list)
<1>1. CASE stIsDownloadOver
  <2>1. ~(count < Len(list))
    BY <1>1 DEF stIsDownloadOver, StartDownload, NotifyServer, thread
  <2> QED
    BY <2>1 DEF TypeOK, BaseInv, ListInv
<1>2. CASE stNotifyServerOver
  BY <1>2 DEF stNotifyServerOver, BaseInv, ListInv
<1> QED
  BY <1>1, <1>2

\* When the script tells the server, all of the release is in .\downloaded, and the
\* flag says so.
LEMMA ReportedThere ==
  ASSUME SystemInv, NotifyServer, stIsDownloadOver \/ stNotifyServerOver,
         NEW n \in Installs(announced)
  PROVE  Arrived(downloaded[n], n, announced) /\ flag = 1
<1>1. state \in Fetched /\ count = Len(list) /\ state \notin {"OpenFlag", "WriteFlag"}
  <2>1. state \in {"stDownload", "stIsDownloadOver", "stNotifyServerOver"}
    BY DEF stIsDownloadOver, stNotifyServerOver
  <2>2. count = Len(list)
    BY AllCounted DEF SystemInv, SystemTypeOK
  <2> QED
    BY <2>1, <2>2 DEF Fetched, Scheduled
<1>2. announced \in Releases /\ list = AnnouncedList(announced)
  BY <1>1 DEF SystemInv, LossInv, ListedInv, RoundInv
<1>3. PICK i \in 1 .. Len(list) :
           \/ Kind[list[i].name] = "rar" /\ n = Payload[list[i].name]
           \/ Kind[list[i].name] = "noext" /\ n = list[i].name
  BY <1>2, InstallsListed DEF SystemInv, SystemTypeOK
<1>4. Through(i)
  BY <1>1 DEF SystemInv, LossInv, ListedInv, HandledInv, Through
<1>5. \A m : ~Fetching(m) /\ ~Emerging(m)
  BY DEF stIsDownloadOver, stNotifyServerOver, Fetching, Emerging, Downloading
<1>6. Arrived(downloaded[n], n, announced)
  BY <1>3, <1>4, <1>5 DEF Through
<1>7. count > 0
  BY <1>1, <1>3 DEF SystemInv, SystemTypeOK, TypeOK
<1> QED
  BY <1>1, <1>6, <1>7 DEF SystemInv, FilesInv, FlagInv

\* The steps of the updater that move what the server was told, the flag, or a
\* release that is settled.
LEMMA ReportSteps ==
  ASSUME TypeOK, BaseInv, RarAlone, [Next]_vars \/ Die
  PROVE  /\ \/ UNCHANGED <<announced, finished>>
            \/ UpdateAnnounced
            \/ NotifyServer /\ (stIsDownloadOver \/ stNotifyServerOver)
         /\ \/ UNCHANGED downloaded
            \/ state \in Fetched /\ state # "stNotifyServerOver" /\ UNCHANGED <<announced, finished>>
         /\ \/ UNCHANGED flag
            \/ state = "WriteFlag" /\ flag' = 1
            \/ state = "OpenFlag" /\ state' = "WriteFlag"
         /\ state = "WriteFlag" => state' \in {"WriteFlag", "down"} \/ flag' = 1
<1> QED
  BY DEF Next, Timeout, Handling, Rar, RarEnds, Download, BEGIN, Crash, Die, HeartbeatFails,
     Publish, stWaitForCheckVersion, NothingToDo, UpdateAnnounced,
     stCheckForDownload, stIsDownloadOver, StartDownload, NotifyServer,
     stDownloadOne, stIsDownloadOK, stNotifyServerOver, BeginUnrar, EndUnrar, UnrarNothing,
     HandleMedia, HandleNoExt, Handled, OpenFlag, WriteFlag, Connect, Read,
     ConnectFails, ReadEnds, script, thread, files, server, vars, BaseInv, ThreadInv, RarAlone,
     Fetched, Scheduled, Inside

\* The updater, or its end, and the release that is settled.
LEMMA UpdaterSettled ==
  ASSUME SystemInv, [Next]_vars \/ Die, UNCHANGED installed
  PROVE  SettledInv'
<1> SUFFICES ASSUME Settled', NEW n \in Installs(finished')
             PROVE  /\ \/ Arrived(downloaded'[n], n, finished')
                       \/ downloaded'[n] = C!Missing /\ Arrived(installed[n], n, finished')
                    /\ flag' = 0 => Arrived(installed[n], n, finished')
  BY DEF SettledInv
<1>1. TypeOK /\ BaseInv /\ RarAlone /\ RoundInv /\ SettledInv
  BY DEF SystemInv, SystemTypeOK, LossInv, ListedInv, MachineInv
<1>2. announced \in Nat /\ finished \in Nat /\ release \in Nat
  BY <1>1 DEF TypeOK
<1>3. CASE UpdateAnnounced
  BY <1>2, <1>3 DEF UpdateAnnounced, Settled
<1>4. CASE NotifyServer /\ (stIsDownloadOver \/ stNotifyServerOver)
  <2>1. announced' = announced /\ finished' = announced /\ UNCHANGED <<downloaded, flag>>
    BY <1>4 DEF NotifyServer, files, Settled
  <2> QED
    BY <1>4, <2>1, ReportedThere
<1>5. CASE UNCHANGED <<announced, finished>>
  <2>1. Settled /\ n \in Installs(finished)
    BY <1>5 DEF Settled
  <2>2. UNCHANGED downloaded
    BY <1>1, <1>2, <2>1, ReportSteps DEF RoundInv, Settled
  <2>3. flag' = 0 => flag = 0
    <3>1. CASE state = "OpenFlag"
      BY <1>1, <1>2, <2>1, <3>1 DEF RoundInv, Settled, Fetched, Inside
    <3> QED
      BY <1>1, <3>1, ReportSteps
  <2> QED
    BY <1>1, <1>5, <2>1, <2>2, <2>3 DEF SettledInv
<1> QED
  BY <1>1, <1>3, <1>4, <1>5, ReportSteps

\* The updater beside autocover.
LEMMA UpdaterLoss ==
  ASSUME UpdaterEnded, AnswersWhole, LengthsTell, SystemInv, Updater
  PROVE  FilesInv' /\ LossInv'
<1>1. /\ TypeOK /\ BaseInv /\ FilesInv /\ HandInv /\ ReleaseInv /\ RoundInv /\ NewerInv
      /\ HandledInv /\ UnpackInv /\ RarAlone /\ [Next]_vars /\ UNCHANGED coverProc
  BY DEF SystemInv, SystemTypeOK, FilesInv, LossInv, ListedInv, MachineInv, Updater
<1>2. FilesInv'
  BY <1>1, NextBase
<1>3. ListedInv'
  BY <1>1, NextRelease, NextRound, NextNewer, NextHandled, NextUnpack DEF ListedInv
<1>4. SettledInv'
  BY <1>1, UpdaterSettled DEF coverProc
<1>5. FlagKept'
  <2> SUFFICES ASSUME cover \in {"killOthers", "CopyDir", "DelDir", "openFlag"}, flag' = 0
               PROVE  finished' < announced' /\ state' \in {"WriteFlag", "down"}
    BY <1>1 DEF FlagKept, coverProc
  <2>1. CASE UNCHANGED flag
    <3>1. finished < announced /\ state \in {"WriteFlag", "down"}
      BY <2>1 DEF SystemInv, LossInv, FlagKept
    <3>2. UNCHANGED <<announced, finished>>
      BY <1>1, <3>1, ReportSteps DEF UpdateAnnounced, stIsDownloadOver, stNotifyServerOver
    <3>3. state = "down" => state' = "down"
      BY DEF Updater, UpdaterEnded
    <3> QED
      BY <1>1, <3>1, <3>2, <3>3, ReportSteps
  <2>2. CASE ~UNCHANGED flag
    <3>1. state = "OpenFlag" /\ state' = "WriteFlag"
      BY <1>1, <2>2, ReportSteps
    <3>2. finished < announced
      BY <1>1, <3>1 DEF RoundInv, Fetched, Inside
    <3>3. UNCHANGED <<announced, finished>>
      BY <1>1, <3>1, ReportSteps DEF UpdateAnnounced, stIsDownloadOver, stNotifyServerOver
    <3> QED
      BY <3>1, <3>2, <3>3
  <2> QED
    BY <2>1, <2>2
<1>6. LeakInv'
  <2>1. cover = "CopyDir" => state = "down" /\ state' = "down"
    BY DEF Updater, UpdaterEnded, SystemInv, MachineInv, AloneInv, AfterKill
  <2>2. cover = "CopyDir" => UNCHANGED downloaded
    BY <1>1, <2>1, DownSteps DEF files
  <2> QED
    BY <1>1, <2>2 DEF SystemInv, LossInv, LeakInv, coverProc, C!Present
<1> QED
  BY <1>2, <1>3, <1>4, <1>5, <1>6 DEF LossInv

\* The updater is ended.
LEMMA KillLoss ==
  ASSUME AnswersWhole, UpdaterEnded, SystemInv, KillOthers
  PROVE  FilesInv' /\ LossInv'
<1>1. /\ TypeOK /\ BaseInv /\ FilesInv /\ ReleaseInv /\ RoundInv /\ RestInv
  BY DEF SystemInv, SystemTypeOK, FilesInv, LossInv, ListedInv, MachineInv
<1>2. Die \/ (UNCHANGED sessionVars /\ state = "down")
  BY DEF KillOthers, UpdaterEnded
<1>3. [Next]_vars \/ Die
  BY <1>2 DEF vars, sessionVars, files
<1>4. state' = "down" /\ list' = <<>> /\ count' = 0 /\ UNCHANGED <<flag, announced, finished>>
  BY <1>1, <1>2 DEF Die, RestInv, sessionVars, script, server
<1>5. FilesInv'
  BY <1>4 DEF FilesInv, HandInv, FlagInv
<1>6. ReleaseInv'
  BY <1>1, <1>3, NextRelease
<1>7. ListedInv'
  BY <1>4, <1>6 DEF ListedInv, RoundInv, NewerInv, HandledInv, UnpackInv, Fetched, Scheduled, Inside
<1>8. SettledInv'
  BY <1>3, UpdaterSettled DEF KillOthers, C!KillOthers
<1>9. FlagKept'
  BY <1>4 DEF SystemInv, LossInv, FlagKept, KillOthers, C!KillOthers
<1>10. LeakInv'
  BY DEF SystemInv, MachineInv, AloneInv, LossInv, LeakInv, KillOthers, C!KillOthers, C!handles
<1> QED
  BY <1>5, <1>7, <1>8, <1>9, <1>10 DEF LossInv

\* autocover copies and deletes what is settled.
LEMMA CoverSettled ==
  ASSUME CopiesSucceed, ReadsWhole, SystemInv, C!CoverStep, UNCHANGED <<announced, finished>>
  PROVE  SettledInv'
<1> USE DEF C!search, C!handles, C!Ended
<1> SUFFICES ASSUME Settled, NEW n \in Installs(finished)
             PROVE  /\ \/ Arrived(downloaded'[n], n, finished)
                       \/ downloaded'[n] = C!Missing /\ Arrived(installed'[n], n, finished)
                    /\ flag' = 0 => Arrived(installed'[n], n, finished)
  BY DEF SettledInv, Settled
<1>1. /\ \/ Arrived(downloaded[n], n, finished)
         \/ downloaded[n] = C!Missing /\ Arrived(installed[n], n, finished)
      /\ flag = 0 => Arrived(installed[n], n, finished)
  BY DEF SystemInv, LossInv, SettledInv
<1>2. cover \in {"CopyDir", "DelDir", "openFlag"} => flag = 1
  <2>1. ~(finished < announced) /\ flag \in {0, 1}
    BY DEF Settled, SystemInv, SystemTypeOK, TypeOK
  <2> QED
    BY <2>1 DEF SystemInv, LossInv, FlagKept
<1>3. n \in Names
  <2>1. finished \in Releases /\ TypeOK
    BY ConstantsAssumption DEF Settled, SystemInv, SystemTypeOK, TypeOK, Releases
  <2>2. PICK i \in 1 .. Len(Manifest[finished]) :
           \/ Kind[Manifest[finished][i]] = "rar" /\ n = Payload[Manifest[finished][i]]
           \/ n = Manifest[finished][i]
    BY DEF Installs
  <2>3. Manifest[finished] \in Seq(Items)
    BY <2>1, ConstantsAssumption
  <2>4. Manifest[finished][i] \in Items
    BY <2>3
  <2> QED
    BY <2>2, <2>4, ConstantsAssumption
<1>4. leaked = {} => (\A m \in C!Present : cover \in {"DelDir", "openFlag"} => Same(m))
  BY DEF SystemInv, MachineInv, SearchInv
<1>5. leaked = {}
  BY DEF SystemInv, LossInv, LeakInv
<1>6. CASE C!StartCover \/ C!EndCopyDir \/ C!EndDelDir \/ C!StartProgram
  BY <1>1, <1>6 DEF C!StartCover, C!EndCopyDir, C!EndDelDir, C!StartProgram
<1>7. ASSUME NEW m \in Names, C!BeginCopyFile(m)
      PROVE  /\ \/ Arrived(downloaded'[n], n, finished)
                \/ downloaded'[n] = C!Missing /\ Arrived(installed'[n], n, finished)
             /\ flag' = 0 => Arrived(installed'[n], n, finished)
  <2>1. UNCHANGED <<downloaded, flag>> /\ flag = 1 /\ m \in C!Present
    BY <1>2, <1>7 DEF C!BeginCopyFile, C!Next1
  <2>2. n # m => installed'[n] = installed[n]
    BY <1>3, <1>7 DEF C!BeginCopyFile, SystemInv, SystemTypeOK
  <2> QED
    BY <1>1, <2>1, <2>2 DEF C!Present
<1>8. ASSUME NEW m \in Names, C!EndCopyFile(m)
      PROVE  /\ \/ Arrived(downloaded'[n], n, finished)
                \/ downloaded'[n] = C!Missing /\ Arrived(installed'[n], n, finished)
             /\ flag' = 0 => Arrived(installed'[n], n, finished)
  <2>1. UNCHANGED <<downloaded, flag>>
    BY <1>8 DEF C!EndCopyFile
  <2>2. cover = "CopyDir" /\ flag = 1
    BY <1>2, <1>8 DEF C!EndCopyFile, SystemInv, MachineInv, AloneInv
  <2>3. installed'[n] = installed[n] \/ installed'[n] = downloaded[n]
    BY <1>3, <1>8 DEF C!EndCopyFile, SystemInv, SystemTypeOK
  <2>4. m \in C!Present
    BY <1>8, <2>2 DEF C!EndCopyFile, SystemInv, LossInv, LeakInv
  <2>5. n # m => installed'[n] = installed[n]
    BY <1>3, <1>8 DEF C!EndCopyFile, SystemInv, SystemTypeOK
  <2> QED
    BY <1>1, <2>1, <2>2, <2>3, <2>4, <2>5 DEF C!Present
<1>9. ASSUME NEW m \in Names, C!DeleteFile(m)
      PROVE  /\ \/ Arrived(downloaded'[n], n, finished)
                \/ downloaded'[n] = C!Missing /\ Arrived(installed'[n], n, finished)
             /\ flag' = 0 => Arrived(installed'[n], n, finished)
  <2>1. UNCHANGED <<installed, flag>> /\ flag = 1 /\ m \in C!Present /\ Same(m)
    BY <1>2, <1>4, <1>5, <1>9 DEF C!DeleteFile, C!Next1
  <2>2. \/ downloaded'[n] = downloaded[n]
        \/ n = m /\ downloaded'[n] = C!Missing
    BY <1>3, <1>9 DEF C!DeleteFile, SystemInv, SystemTypeOK, TypeOK
  <2> QED
    BY <1>1, <2>1, <2>2 DEF C!Present, Same
<1>10. CASE C!ClearFlag
  <2>1. UNCHANGED <<downloaded, installed>> /\ cover = "openFlag"
    BY <1>10 DEF C!ClearFlag
  <2>2. downloaded[n] # C!Missing => Same(n)
    BY <1>3, <1>4, <1>5, <2>1 DEF C!Present
  <2>3. ~Arrived(C!Missing, n, finished)
    BY DEF Arrived, IsWhole, C!Missing, Releases
  <2> QED
    BY <1>1, <2>1, <2>2, <2>3 DEF Same
<1> QED
  BY <1>6, <1>7, <1>8, <1>9, <1>10 DEF C!CoverStep

\* autocover, and what else depends on it.
LEMMA CoverLoss ==
  ASSUME CopiesSucceed, ReadsWhole, SystemInv, Cover
  PROVE  FilesInv' /\ LossInv'
<1> USE DEF C!search, C!handles, C!Ended
<1>1. /\ TypeOK /\ BaseInv /\ FilesInv /\ ListedInv /\ RestInv /\ RarAlone /\ AloneInv
      /\ UNCHANGED <<state, list, count, worker, length, closed, locked, rar, video>>
      /\ UNCHANGED <<release, announced, finished>>
  BY DEF SystemInv, SystemTypeOK, LossInv, MachineInv, Cover, unshared, script, thread, server
<1>2. name' = name
  BY <1>1 DEF name, Current
<1>3. ListedInv' /\ FilesInv'
  <2>1. CASE UNCHANGED <<downloaded, flag>>
    BY <1>1, <1>2, <2>1 DEF ListedInv, FilesInv, HandInv, FlagInv, ReleaseInv, RoundInv, NewerInv,
       HandledInv, UnpackInv, Emerging, Fetching, Current
  <2>2. CASE ~UNCHANGED <<downloaded, flag>>
    <3>1. state = "down" /\ count = 0 /\ closed
      BY <1>1, <2>2, CoverShared DEF Cover, AloneInv, AfterKill, RestInv, SystemInv
    <3>2. \A n \in Names : downloaded'[n] = downloaded[n] \/ downloaded'[n] = C!Missing
      BY CoverShared DEF Cover, SystemInv, SystemTypeOK, TypeOK
    <3>3. C!Missing.rel = 0 /\ C!Missing.len = 0 /\ release \in Nat
      BY <1>1 DEF C!Missing, TypeOK
    <3>4. \A n \in Names : downloaded'[n].rel <= release
      BY <1>1, <3>2, <3>3 DEF ListedInv, ReleaseInv
    <3>5. \A n \in Items : IF downloaded'[n].rel \in Releases
                          THEN downloaded'[n].len <= Size[n][downloaded'[n].rel]
                          ELSE downloaded'[n].len = 0
      <4> SUFFICES ASSUME NEW n \in Items
                   PROVE  IF downloaded'[n].rel \in Releases
                          THEN downloaded'[n].len <= Size[n][downloaded'[n].rel]
                          ELSE downloaded'[n].len = 0
        OBVIOUS
      <4>1. n \in Names
        BY ConstantsAssumption
      <4>2. CASE downloaded'[n] = downloaded[n]
        BY <1>1, <4>2 DEF ListedInv, ReleaseInv
      <4>3. CASE downloaded'[n] = C!Missing
        BY <3>3, <4>3 DEF Releases
      <4> QED
        BY <3>2, <4>1, <4>2, <4>3
    <3>6. ReleaseInv'
      BY <1>1, <3>1, <3>4, <3>5 DEF ReleaseInv
    <3> QED
      BY <1>1, <3>1, <3>6 DEF ListedInv, FilesInv, HandInv, FlagInv, RoundInv, NewerInv,
         HandledInv, UnpackInv, Fetched, Scheduled, Inside
  <2> QED
    BY <2>1, <2>2
<1>4. SettledInv'
  BY <1>1, CoverSettled DEF Cover
<1>5. LeakInv'
  <2>1. leaked = {} /\ (cover = "CopyDir" => copying \subseteq C!Present)
    BY DEF SystemInv, LossInv, LeakInv
  <2>2. ASSUME NEW n \in Names, C!BeginCopyFile(n)
        PROVE  LeakInv'
    <3>1. n \notin Held
      BY <1>1, <2>2 DEF C!BeginCopyFile, AloneInv, RestInv, RarAlone, AfterKill, Held, Unpacking
    <3> QED
      BY <2>1, <2>2, <3>1 DEF C!BeginCopyFile, C!Next1, CopiesSucceed, LeakInv, C!Present
  <2>3. ASSUME NEW n \in Names, C!EndCopyFile(n)
        PROVE  LeakInv'
    BY <2>1, <2>3 DEF C!EndCopyFile, CopiesSucceed, LeakInv
  <2>4. ASSUME NEW n \in Names, C!DeleteFile(n)
        PROVE  LeakInv'
    BY <2>1, <2>4 DEF C!DeleteFile, LeakInv
  <2>5. CASE C!StartCover \/ C!EndCopyDir \/ C!EndDelDir \/ C!ClearFlag \/ C!StartProgram
    BY <1>1, <2>1, <2>5 DEF C!StartCover, C!EndCopyDir, C!BeginSearch, C!EndDelDir, C!ClearFlag,
       C!StartProgram, LeakInv, AloneInv
  <2> QED
    BY <2>2, <2>3, <2>4, <2>5 DEF Cover, C!CoverStep
<1>6. FlagKept'
  <2>1. FlagKept
    BY DEF SystemInv, LossInv
  <2>2. CASE C!StartCover
    BY <1>1, <2>1, <2>2 DEF C!StartCover, FlagKept
  <2>3. CASE C!ClearFlag \/ C!StartProgram
    BY <2>3 DEF C!ClearFlag, C!StartProgram, FlagKept
  <2>4. CASE C!EndCopyDir \/ C!EndDelDir
    BY <1>1, <2>1, <2>4 DEF C!EndCopyDir, C!BeginSearch, C!EndDelDir, FlagKept
  <2>5. ASSUME NEW n \in Names, C!BeginCopyFile(n) \/ C!EndCopyFile(n) \/ C!DeleteFile(n)
        PROVE  FlagKept'
    BY <1>1, <2>1, <2>5 DEF C!BeginCopyFile, C!EndCopyFile, C!DeleteFile, FlagKept
  <2> QED
    BY <2>2, <2>3, <2>4, <2>5 DEF Cover, C!CoverStep
<1> QED
  BY <1>3, <1>4, <1>5, <1>6 DEF LossInv

LEMMA LossInit == SystemInit => FilesInv /\ LossInv
<1> SUFFICES ASSUME SystemInit PROVE FilesInv /\ LossInv
  OBVIOUS
<1>1. FilesInv /\ Init /\ C!CoverInit
  BY InitInv DEF SystemInit, SessionInv
<1>2. ListedInv
  BY <1>1, ConstantsAssumption DEF Init, NoFile, Absent, Releases, ListedInv, ReleaseInv, RoundInv,
     NewerInv, HandledInv, UnpackInv, Fetched, Scheduled, Inside
<1>3. SettledInv /\ FlagKept /\ LeakInv
  BY <1>1 DEF Init, C!CoverInit, SettledInv, Settled, FlagKept, LeakInv
<1> QED
  BY <1>1, <1>2, <1>3 DEF LossInv

LEMMA LossNext ==
  ASSUME UpdaterEnded, RarEndsFirst, ReadsWhole, CopiesSucceed, AnswersWhole, LengthsTell,
         SystemInv, [SystemNext]_allVars
  PROVE  SystemInv'
<1>1. SystemTypeOK' /\ BaseInv' /\ MachineInv'
  BY SystemNextTypes, SystemMachine DEF SystemInv
<1>2. FilesInv' /\ LossInv'
  <2>1. CASE CoverCrash
    <3>1. UNCHANGED sessionVars /\ cover' = "off" /\ leaked' = {} /\ UNCHANGED installed
      BY <2>1 DEF CoverCrash, C!CoverCrash, C!Ended
    <3> QED
      BY <3>1 DEF sessionVars, script, thread, server, SystemInv, FilesInv, HandInv, FlagInv, LossInv,
         ListedInv, ReleaseInv, RoundInv, NewerInv, HandledInv, UnpackInv, Emerging, Fetching, name,
         Current, SettledInv, Settled, FlagKept, LeakInv
  <2>2. CASE StartMain \/ UNCHANGED allVars
    <3>1. UNCHANGED <<sessionVars, cover, copying, leaked, installed>>
      BY <2>2 DEF StartMain, allVars, coverProc
    <3> QED
      BY <3>1 DEF sessionVars, script, thread, server, SystemInv, FilesInv, HandInv, FlagInv, LossInv,
         ListedInv, ReleaseInv, RoundInv, NewerInv, HandledInv, UnpackInv, Emerging, Fetching, name,
         Current, SettledInv, Settled, FlagKept, LeakInv, C!Present
  <2> QED
    BY <2>1, <2>2, UpdaterLoss, CoverLoss, KillLoss DEF SystemNext
<1> QED
  BY <1>1, <1>2 DEF SystemInv

\* A release reported as finished, and not superseded, is installed, or waits in
\* .\downloaded with the flag set: whichever process dies at whichever step, whoever
\* starts the main program again, and whichever download, search, deletion, flag or
\* answer fails. It assumes that the updater and rar are ended and stay down while
\* autocover works, that rar and every copy succeed, that the list and the
\* Content-Length arrive, and that newer versions of an item are longer.
THEOREM NothingLost ==
  ASSUME UpdaterEnded, RarEndsFirst, ReadsWhole, CopiesSucceed, AnswersWhole, LengthsTell
  PROVE  SystemSpec => []NoLostUpdate
<1>1. SystemInit => SystemInv
  BY SystemInitTypes, MachineInit, LossInit DEF SystemInv
<1>2. SystemInv /\ [SystemNext]_allVars => SystemInv'
  BY LossNext
<1>3. SystemInv => NoLostUpdate
  <2> SUFFICES ASSUME SystemInv, Settled, NEW n \in Installs(finished)
               PROVE  \/ Arrived(installed[n], n, finished)
                      \/ Arrived(downloaded[n], n, finished) /\ flag = 1
    BY DEF NoLostUpdate, Settled
  <2>1. flag \in {0, 1}
    BY DEF SystemInv, SystemTypeOK, TypeOK
  <2> QED
    BY <2>1 DEF SystemInv, LossInv, SettledInv
<1> QED
  BY <1>1, <1>2, <1>3, PTL DEF SystemSpec

-----------------------------------------------------------------------------
(* The updater alone: what the server is told.                             *)

\* Each copy of a medium succeeds: the script does not look at the result.
MediaCopied == "disk" \notin Faults

VideoInv ==
  state \in Fetched =>
    \A i \in 1 .. count : Kind[list[i].name] = "media" => video[list[i].name] >= announced

\* A medium that was counted has been copied, in the announced release or a newer
\* one, and is not copied again from an older file.
LEMMA NextVideo ==
  ASSUME MediaCopied, LengthsTell, TypeOK, BaseInv, HandInv, ReleaseInv, RoundInv,
         NewerInv, VideoInv, [Next]_vars
  PROVE  VideoInv'
<1> SUFFICES ASSUME state' \in Fetched, NEW i \in 1 .. count', Kind[list'[i].name] = "media"
             PROVE  video'[list'[i].name] >= announced'
  BY DEF VideoInv
<1>1. CASE UpdateAnnounced
  BY <1>1 DEF UpdateAnnounced, RoundInv
<1>2. CASE ~UpdateAnnounced
  <2>1. state \in Fetched /\ UNCHANGED <<list, announced>> /\ ~Die
    BY <1>2, FetchedSteps DEF Die, Fetched, Scheduled, Inside
  <2>2. \A j \in 1 .. count : Kind[list[j].name] = "media" => video[list[j].name] >= announced
    BY <2>1 DEF VideoInv
  <2>3. count \in Nat
    BY DEF TypeOK
  <2>4. CASE HandleMedia
    <3>1. /\ state = "HandleDownoadedFile" /\ count' = count + 1
          /\ name \in Items /\ list[count + 1].name = name
      BY <2>4, ItemInHand DEF HandleMedia, Handled, InHand, BaseInv, ListInv, name, Current
    <3>2. name \notin locked /\ Arrived(downloaded[name], name, announced)
      BY <3>1, GoodInHand
    <3>3. video' = [video EXCEPT ![name] = downloaded[name].rel]
      BY <2>4, <3>2 DEF HandleMedia, Intact, Arrived, MediaCopied
    <3>4. video'[name] >= announced /\ \A n \in Items : n # name => video'[n] = video[n]
      BY <3>1, <3>2, <3>3 DEF TypeOK, Arrived
    <3>5. i \in 1 .. Len(list) /\ (i \in 1 .. count \/ list[i].name = name)
      BY <2>3, <3>1 DEF BaseInv, ListInv, InHand, TypeOK
    <3>6. list[i].name \in Items
      BY <3>5, ItemAt
    <3> QED
      BY <2>1, <2>2, <3>4, <3>5, <3>6
  <2>5. CASE EndUnrar \/ UnrarNothing \/ HandleNoExt
    <3>1. /\ count' = count + 1 /\ UNCHANGED video
          /\ list[count + 1].name = name /\ Kind[name] # "media"
      BY <2>5 DEF EndUnrar, UnrarNothing, HandleNoExt, Handled, files, BaseInv, UnrarInv,
         name, Current
    <3>2. i \in 1 .. count
      BY <2>1, <2>3, <3>1
    <3> QED
      BY <2>1, <2>2, <3>1, <3>2
  <2>6. CASE count' = count /\ ~HandleMedia
    <3>1. UNCHANGED video
      BY <2>1, <2>6 DEF Next, Timeout, Handling, Rar, RarEnds, Download, BEGIN, Crash, HeartbeatFails,
     Publish, stWaitForCheckVersion, NothingToDo, UpdateAnnounced,
     stCheckForDownload, stIsDownloadOver, StartDownload, NotifyServer,
     stDownloadOne, stIsDownloadOK, stNotifyServerOver, BeginUnrar, EndUnrar, UnrarNothing,
     HandleNoExt, OpenFlag, WriteFlag, Connect, Read, ConnectFails, ReadEnds, files, vars
    <3> QED
      BY <2>1, <2>2, <2>6, <3>1
  <2> QED
    BY <2>1, <2>4, <2>5, <2>6, CountSteps
<1> QED
  BY <1>1, <1>2

\* When the script reports a release, every file of it is in its place: what an
\* archive holds and a file without extension in .\downloaded, a medium in ../video
\* (autoupdate.lua, stIsDownloadOver and HandleDownoadedFile).  Downloads may be cut,
\* refused or repeated, and the process may die at any step; but nothing fails on the
\* disk or in rar, which ends with the process, and no length is 0 or that of an
\* older version.
THEOREM ReportIsTrue ==
  ASSUME MediaCopied, RarEndsFirst, AnswersWhole, LengthsTell
  PROVE  Spec => FinishedIsInPlace
<1> DEFINE Known == TypeOK /\ SessionInv /\ RarAlone /\ ListedInv /\ VideoInv
           True == finished' # finished =>
                     \A i \in 1 .. Len(Manifest[finished']) :
                       LET n == Manifest[finished'][i]
                       IN  Size[n][finished'] > 0 =>
                             InPlace(n, IF Told(n, finished') THEN finished' ELSE 1)
<1>1. Init => Known
  <2> SUFFICES ASSUME Init PROVE Known
    OBVIOUS
  <2>1. ListedInv
    BY ConstantsAssumption DEF Init, NoFile, Absent, Releases, ListedInv, ReleaseInv, RoundInv,
     NewerInv, HandledInv, UnpackInv, Fetched, Scheduled, Inside
  <2>2. VideoInv /\ RarAlone
    BY DEF Init, VideoInv, RarAlone
  <2> QED
    BY <2>1, <2>2, InitInv
<1>2. Known /\ [Next]_vars => Known'
  <2> SUFFICES ASSUME Known, [Next]_vars PROVE Known'
    OBVIOUS
  <2>1. /\ TypeOK /\ BaseInv /\ FilesInv /\ HandInv /\ RarAlone /\ ReleaseInv /\ RoundInv
        /\ NewerInv /\ HandledInv /\ UnpackInv /\ VideoInv
    BY DEF SessionInv, FilesInv, ListedInv
  <2>2. TypeOK' /\ SessionInv'
    BY <2>1, NextBase DEF SessionInv
  <2>3. ListedInv'
    BY <2>1, NextRelease, NextRound, NextNewer, NextHandled, NextUnpack DEF ListedInv
  <2>4. VideoInv' /\ RarAlone'
    BY <2>1, NextVideo, NextRarAlone
  <2> QED
    BY <2>2, <2>3, <2>4
<1>3. Known /\ [Next]_vars => [True]_vars
  <2> SUFFICES ASSUME Known, [Next]_vars, finished' # finished,
                      NEW i \in 1 .. Len(Manifest[finished']), NEW r \in {1, finished'}
               PROVE  InPlace(Manifest[finished'][i], r)
    BY DEF True
  <2>1. NotifyServer /\ (stIsDownloadOver \/ stNotifyServerOver)
    BY ReportSteps DEF SessionInv, UpdateAnnounced
  <2>2. state \in {"stDownload", "stIsDownloadOver", "stNotifyServerOver"}
    BY <2>1 DEF stIsDownloadOver, stNotifyServerOver
  <2>3. finished' = announced /\ UNCHANGED <<downloaded, video>>
    BY <2>1 DEF NotifyServer, files
  <2>4. count = Len(list)
    BY <2>1, AllCounted DEF SessionInv
  <2>5. state \in Fetched /\ announced \in Releases /\ list = AnnouncedList(announced)
    BY <2>2 DEF Fetched, Scheduled, ListedInv, RoundInv
  <2>6. i \in 1 .. count /\ list[i].name = Manifest[announced][i]
    BY <2>3, <2>4, <2>5, ConstantsAssumption DEF AnnouncedList, Line
  <2> DEFINE n == Manifest[announced][i]
  <2>7. n \in Items
    BY <2>3, <2>5, ConstantsAssumption
  <2>8. /\ Kind[n] = "rar" => Arrived(downloaded[Payload[n]], Payload[n], announced)
        /\ Kind[n] = "noext" => Arrived(downloaded[n], n, announced)
    BY <2>2, <2>5, <2>6 DEF ListedInv, HandledInv, Emerging, Fetching, Downloading
  <2>9. Kind[n] = "media" => video[n] >= announced
    BY <2>5, <2>6 DEF VideoInv
  <2>10. Kind[n] \in {"rar", "media", "noext"}
    BY <2>7, ConstantsAssumption
  <2>11. r <= announced /\ r \in Nat /\ announced \in Nat
    BY <2>3, <2>5 DEF Releases
  <2>12. /\ Kind[n] = "media" => video[n] \in Nat
         /\ Kind[n] = "rar" => downloaded[Payload[n]].rel \in Nat
         /\ Kind[n] = "noext" => downloaded[n].rel \in Nat
    <3>1. video[n] \in Nat
      BY <2>7 DEF TypeOK, Releases, Absent
    <3> QED
      BY <2>8, <3>1 DEF Releases, Arrived, IsWhole
  <2> HIDE DEF n
  <2>13. Kind[n] = "media" => video[n] >= r
    BY <2>9, <2>11, <2>12
  <2>14. Kind[n] = "rar" => downloaded[Payload[n]].rel >= r /\ IsWhole(Payload[n], downloaded[Payload[n]])
    BY <2>8, <2>11, <2>12 DEF Arrived
  <2>15. Kind[n] = "noext" => downloaded[n].rel >= r /\ IsWhole(n, downloaded[n])
    BY <2>8, <2>11, <2>12 DEF Arrived
  <2>16. InPlace(n, r)
    BY <2>10, <2>13, <2>14, <2>15 DEF InPlace
  <2> QED
    BY <2>3, <2>16 DEF n, InPlace
<1> QED
  BY <1>1, <1>2, <1>3, PTL DEF Spec, FinishedIsInPlace, True
=============================================================================
