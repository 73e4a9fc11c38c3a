--------------------------- MODULE UpdateSession ---------------------------
(***************************************************************************)
(* The update session: the Lua script work/lua/autoupdate.lua run by the   *)
(* single pull thread of the service, the download thread it starts        *)
(* (httpdownload/CDownloadCTL.cpp), the files of .\downloaded and the      *)
(* update flag.                                                            *)
(*                                                                         *)
(* The script is a chain of functions.  Each one ends with C_StartTimer    *)
(* and C_SetNextState("_EvtTimeOut", -1, f): the variable state holds the  *)
(* f that the next timeout calls.  Functions run one at a time; a function *)
(* that calls another program or touches a file that autocover touches too *)
(* is split where the two processes can interleave or the process can die. *)
(*                                                                         *)
(* The update server is not in the repository: it is modelled from the way *)
(* the script uses it (release, announced, finished).                      *)
(***************************************************************************)
EXTENDS Integers, Sequences

CONSTANTS
  Names,      \* names of files in .\downloaded
  Items,      \* those of them the server offers
  Kind,       \* Kind[n]: by its extension, "rar", "media", or "noext"
  Payload,    \* Payload[n]: the file that unpacking archive n produces
  MaxRelease, \* bound: releases the server publishes
  Manifest,   \* Manifest[r]: the items of release r, in the order announced
  Size,       \* Size[n][r]: length of file n in release r, in read blocks
  MaxLength,  \* bound on a Content-Length that was never set
  Faults      \* the failures of the environment that may happen

FaultKinds == {"refuse", "drop", "disk", "nolength", "nothread", "cut",
               "rar", "nil", "lost", "config", "crash", "outlive"}

Releases == 1 .. MaxRelease

ASSUME ConstantsAssumption ==
  /\ Items \subseteq Names
  /\ Kind \in [Items -> {"rar", "media", "noext"}]
  /\ Payload \in [{n \in Items : Kind[n] = "rar"} -> Names \ Items]
  /\ MaxRelease \in Nat
  /\ Manifest \in [Releases -> Seq(Items)]
  /\ Size \in [Names -> [Releases -> Nat]]
  /\ MaxLength \in Nat
  /\ Faults \subseteq FaultKinds

VARIABLES
  state,     \* the script function the next timeout runs, or where one stands
  list,      \* g_downloadList: what the last accepted answer announced
  count,     \* g_downloadedCount
  worker,    \* the download thread: "none", "connect", "read", "ended"
  length,    \* m_iSize, the Content-Length the thread works with
  closed,    \* whether the thread has closed its file handle
  downloaded,\* the files of .\downloaded
  locked,    \* those of them a handle of this process holds, share mode 0
  rar,       \* the archives that a rar.exe is unpacking
  video,     \* the release of each medium copied to ../video
  flag,      \* needupdate in updateflag.dat; a truncated file reads as 0
  release,   \* server: the newest release
  announced, \* server: the release last announced to this client
  finished   \* server: the release this client reported as finished

script == <<state, list, count>>
thread == <<worker, length, closed>>
files  == <<downloaded, locked, rar, video, flag>>
server == <<release, announced, finished>>
vars   == <<script, thread, files, server>>

-----------------------------------------------------------------------------
Absent == 0
NoFile == [rel |-> Absent, len |-> 0]
File   == [rel : Releases \cup {Absent}, len : Nat]
Whole(n, r) == [rel |-> r, len |-> Size[n][r]]
IsWhole(n, f) == f.rel \in Releases /\ f.len = Size[n][f.rel]

\* The functions a timeout can call (autoupdate.lua).
Scheduled == {"stWaitForCheckVersion", "stCheckVersion", "stCheckForDownload",
              "stDownload", "stIsDownloadOver", "stDownloadOne",
              "stIsDownloadOK", "stNotifyServerOver"}
\* Points inside stIsDownloadOK where the process can be interrupted.
Inside == {"HandleDownoadedFile", "unrar", "OpenFlag", "WriteFlag"}
\* No process, and a process whose BEGIN returned without starting a timer.
Resting == {"down", "idle"}

\* The item being worked on: g_downloadList[g_downloadedCount].
Current == list[count + 1]
name == Current.name

\* A line "path,size" of the answer, for item n of release r.
Line(n, r) == [name |-> n, size |-> Size[n][r]]

\* Mutant: AddFile keeps a line whose size was cut off (-1 stands for nil).
ReceivedUnchecked(r) ==
  LET whole == [i \in 1 .. Len(Manifest[r]) |-> Line(Manifest[r][i], r)]
  IN  {whole} \cup {[whole EXCEPT ![Len(whole)].size = -1]}

\* HttpPost returns only the first block of the body: of a long answer the
\* script sees the first lines, and perhaps the last of them with a size cut
\* short. A line left without size is dropped by AddFile.
Received(r) ==
  LET whole == [i \in 1 .. Len(Manifest[r]) |-> Line(Manifest[r][i], r)]
  IN  {whole} \cup
      IF "cut" \in Faults
      THEN {SubSeq(whole, 1, k) : k \in 0 .. Len(whole)} \cup
           {[whole EXCEPT ![Len(whole)].size = s] :
              s \in 1 .. IF whole = <<>> THEN 0 ELSE whole[Len(whole)].size}
      ELSE {}

\* Mutant: the size is taken from the directory, open or not.
SavedSizeUnopened(n) == {downloaded[n].len}

\* GetFileSize: 0 for a file that cannot be opened, and a file another handle
\* holds with share mode 0 cannot be. Whether rar shares the archive it reads
\* is not known here.
SavedSize(n) == (IF n \in locked THEN {} ELSE {downloaded[n].len})
                  \cup (IF n \in locked \cup rar THEN {0} ELSE {})

\* What rar has open: the archives, and the files it writes.
Unpacking == rar \cup {Payload[n] : n \in rar}

-----------------------------------------------------------------------------
Init ==
  /\ state = "down" /\ list = <<>> /\ count = 0
  /\ worker = "none" /\ length = 0 /\ closed = TRUE
  /\ downloaded = [n \in Names |-> NoFile]
  /\ locked = {} /\ rar = {}
  /\ video = [n \in Items |-> Absent]
  /\ flag = 0
  /\ release = 0 /\ announced = 0 /\ finished = 0

\* The process ends, and with it the thread and every handle it holds. rar.exe,
\* started by os.execute, is a process of its own: what ended the updater ends
\* it too (the machine went down), or it goes on.
Die ==
  /\ state' = "down" /\ list' = <<>> /\ count' = 0
  /\ worker' = "none" /\ length' = 0 /\ closed' = TRUE
  /\ locked' = {}
  /\ rar' = {} \/ ("outlive" \in Faults /\ UNCHANGED rar)
  /\ UNCHANGED <<downloaded, video, flag, server>>

Crash == "crash" \in Faults /\ state # "down" /\ Die

\* BEGIN: without a server address or a key it returns and no timer runs.
BEGIN ==
  /\ state = "down"
  /\ \/ state' = "stCheckVersion"
     \/ "config" \in Faults /\ state' = "idle"
  /\ list' = <<>> /\ count' = 0
  /\ UNCHANGED <<thread, files, server>>

\* Mutant: the count of the previous round is kept.
stWaitKeepsCount ==
  /\ state = "stWaitForCheckVersion"
  /\ list' = <<>>
  /\ state' = "stCheckVersion"
  /\ UNCHANGED <<count, thread, files, server>>

stWaitForCheckVersion ==
  /\ state = "stWaitForCheckVersion"
  /\ list' = <<>> /\ count' = 0
  /\ state' = "stCheckVersion"
  /\ UNCHANGED <<thread, files, server>>

\* No answer, no update, or an unknown status: wait for the next round.
NothingToDo ==
  /\ state = "stCheckVersion"
  /\ state' = "stWaitForCheckVersion"
  /\ UNCHANGED <<list, count, thread, files, server>>

\* Status 1 (download now) or 2 (ask again before downloading), and the list.
UpdateAnnounced ==
  /\ state = "stCheckVersion"
  /\ release > finished
  /\ announced' = release
  /\ \E lines \in Received(release) : list' = list \o lines
  /\ state' \in {"stDownload", "stCheckForDownload"}
  /\ UNCHANGED <<count, thread, files, release, finished>>

\* Any answer but 1 leaves the state as it is, to ask again a second later.
stCheckForDownload ==
  /\ state = "stCheckForDownload"
  /\ state' = "stDownload"
  /\ UNCHANGED <<list, count, thread, files, server>>

\* C_HttpDownload: start the thread, and always return 0.
StartDownload ==
  /\ state' = "stIsDownloadOK"
  /\ \/ worker' = "connect"
     \/ "nothread" \in Faults /\ worker' = "none"
  /\ UNCHANGED <<list, count, length, closed, files, server>>

\* Mutant: the server takes its newest release for the finished one.
NotifyNewest ==
  /\ finished' = release /\ state' = "stWaitForCheckVersion"
  /\ UNCHANGED <<list, count, thread, files, release, announced>>

\* updateFinish: the server hears it or not, the script hears "1" or not.
NotifyServer ==
  /\ \/ finished' = announced /\ state' = "stWaitForCheckVersion"
     \/ /\ "lost" \in Faults
        /\ finished' \in {finished, announced}
        /\ state' = "stNotifyServerOver"
  /\ UNCHANGED <<list, count, thread, files, release, announced>>

stIsDownloadOver ==
  /\ state \in {"stDownload", "stIsDownloadOver"}
  /\ IF count < Len(list) THEN StartDownload ELSE NotifyServer

stDownloadOne == state = "stDownloadOne" /\ StartDownload

stNotifyServerOver == state = "stNotifyServerOver" /\ NotifyServer

\* Mutant: a download that takes too long is started again.
HeartbeatRestarts ==
  /\ state = "stIsDownloadOK" /\ worker # "ended"
  /\ state' = "stDownloadOne"
  /\ UNCHANGED <<list, count, thread, files, server>>

\* Not finished: the heartbeat. An empty answer is nil, and appending it to
\* the log line is a Lua error, on which CallLuaFunc ends the process. Any
\* other answer leaves the state as it is, to look again a minute later.
HeartbeatFails ==
  /\ state = "stIsDownloadOK" /\ worker # "ended"
  /\ "nil" \in Faults
  /\ Die

\* Mutant: a failed download is looked at again instead of being repeated.
stIsDownloadOKStays ==
  /\ state = "stIsDownloadOK" /\ worker = "ended"
  /\ worker' = "none"
  /\ \E s \in SavedSize(name) :
       state' = IF s = Current.size THEN "HandleDownoadedFile"
                                    ELSE "stIsDownloadOK"
  /\ UNCHANGED <<list, count, length, closed, files, server>>

\* Finished: the size tells whether the download succeeded.
stIsDownloadOK ==
  /\ state = "stIsDownloadOK" /\ worker = "ended"
  /\ worker' = "none"
  /\ \E s \in SavedSize(name) :
       state' = IF s = Current.size THEN "HandleDownoadedFile"
                                    ELSE "stDownloadOne"
  /\ UNCHANGED <<list, count, length, closed, files, server>>

\* Mutant: the flag is left to a later step.
HandledUnflagged == count' = count + 1 /\ state' = "stIsDownloadOver"

\* The rest of stIsDownloadOK once HandleDownoadedFile is through.
Handled == count' = count + 1 /\ state' = "OpenFlag"

Intact(n) == n \notin locked /\ IsWhole(n, downloaded[n])

\* os.remove: a file that is open stays.
Removed(dir) ==
  [dir EXCEPT ![name] = IF name \in locked \cup rar THEN @ ELSE NoFile]

\* rar can read the archive and create the file that comes out of it.
Unpackable == /\ Intact(name) /\ downloaded[name].len > 0
              /\ Payload[name] \notin Unpacking

\* rar x -o+ empties the file and begins to write it.
BeginUnrar ==
  /\ state = "HandleDownoadedFile" /\ Kind[name] = "rar"
  /\ Unpackable
  /\ downloaded' = [downloaded EXCEPT ![Payload[name]] =
                      [rel |-> downloaded[name].rel, len |-> 0]]
  /\ rar' = rar \cup {name}
  /\ state' = "unrar"
  /\ UNCHANGED <<list, count, thread, locked, video, flag, server>>

\* A rar.exe ends, and has written the file or not.
RarEnds(n) ==
  /\ n \in rar
  /\ rar' = rar \ {n}
  /\ \/ downloaded' = [downloaded EXCEPT ![Payload[n]] =
                          Whole(Payload[n], downloaded[n].rel)]
     \/ "rar" \in Faults /\ UNCHANGED downloaded
  /\ UNCHANGED <<script, thread, locked, video, flag, server>>

\* os.execute has waited for rar. Its exit code is not looked at, and the
\* archive is removed.
EndUnrar ==
  /\ state = "unrar" /\ name \notin rar
  /\ downloaded' = Removed(downloaded)
  /\ Handled
  /\ UNCHANGED <<list, thread, locked, rar, video, flag, server>>

\* rar finds no archive, or not an archive: nothing comes out of it.
UnrarNothing ==
  /\ state = "HandleDownoadedFile" /\ Kind[name] = "rar"
  /\ ~Unpackable
  /\ downloaded' = Removed(downloaded)
  /\ Handled
  /\ UNCHANGED <<list, thread, locked, rar, video, flag, server>>

\* A medium is copied, the result of the copy is ignored, the source removed.
HandleMedia ==
  /\ state = "HandleDownoadedFile" /\ Kind[name] = "media"
  /\ \/ Intact(name) /\ video' = [video EXCEPT ![name] = downloaded[name].rel]
     \/ ("disk" \in Faults \/ ~Intact(name)) /\ UNCHANGED video
  /\ downloaded' = Removed(downloaded)
  /\ Handled
  /\ UNCHANGED <<list, thread, locked, rar, flag, server>>

\* A file without extension stays where it was downloaded.
HandleNoExt ==
  /\ state = "HandleDownoadedFile" /\ Kind[name] = "noext"
  /\ Handled
  /\ UNCHANGED <<list, thread, files, server>>

\* io.open("updateflag.dat", "w") truncates; if it fails, the write to nil is
\* a Lua error, and the process ends.
OpenFlag ==
  /\ state = "OpenFlag"
  /\ \/ /\ state' = "WriteFlag" /\ flag' = 0
        /\ UNCHANGED <<list, count, thread, downloaded, locked, rar, video, server>>
     \/ "disk" \in Faults /\ Die

WriteFlag ==
  /\ state = "WriteFlag"
  /\ flag' = 1
  /\ state' = "stIsDownloadOver"
  /\ UNCHANGED <<list, count, thread, downloaded, locked, rar, video, server>>

-----------------------------------------------------------------------------
(* WriteToLocalFile, on the download thread.                               *)

\* No connection, status other than 200, or a local file that cannot be made:
\* return FALSE, which nobody looks at; a file already there stays.
ConnectFails ==
  /\ worker = "connect"
  /\ "refuse" \in Faults \/ name \in locked \cup rar
  /\ worker' = "ended"
  /\ UNCHANGED <<script, length, closed, files, server>>

\* Status 200; CreateFile with share mode 0 and CREATE_ALWAYS. The thread
\* fetches what the server holds now. A missing Content-Length leaves m_iSize
\* uninitialized.
Connect ==
  /\ worker = "connect" /\ name \notin locked \cup rar
  /\ downloaded' = [downloaded EXCEPT ![name] = [rel |-> release, len |-> 0]]
  /\ locked' = locked \cup {name}
  /\ \/ length' = Size[name][release]
     \/ "nolength" \in Faults /\ length' \in 0 .. MaxLength
  /\ closed' = FALSE
  /\ worker' = "read"
  /\ UNCHANGED <<script, rar, video, flag, server>>

\* One block arrives and is written; at Content-Length the file is closed.
Read ==
  LET len == downloaded[name].len + 1
  IN  /\ worker = "read" /\ ~closed
      /\ len <= Size[name][downloaded[name].rel]
      /\ downloaded' = [downloaded EXCEPT ![name].len = len]
      /\ closed' = (len >= length)
      /\ locked' = IF closed' THEN locked \ {name} ELSE locked
      /\ UNCHANGED <<script, worker, length, rar, video, flag, server>>

\* The loop ends: no more data, the connection is gone, or the write failed
\* (disk full, or the handle is closed already). An open handle stays open.
ReadEnds ==
  /\ worker = "read"
  /\ \/ ~closed /\ downloaded[name].len = Size[name][downloaded[name].rel]
     \/ closed
     \/ {"drop", "disk"} \cap Faults # {}
  /\ worker' = "ended" /\ length' = 0 /\ closed' = TRUE
  /\ UNCHANGED <<script, files, server>>

-----------------------------------------------------------------------------
Publish ==
  /\ release < MaxRelease
  /\ release' = release + 1
  /\ UNCHANGED <<script, thread, files, announced, finished>>

Timeout ==
  \/ stWaitForCheckVersion \/ NothingToDo \/ UpdateAnnounced
  \/ stCheckForDownload \/ stIsDownloadOver \/ stDownloadOne
  \/ stIsDownloadOK \/ HeartbeatFails \/ stNotifyServerOver

Handling == \/ BeginUnrar \/ EndUnrar \/ UnrarNothing \/ HandleMedia
            \/ HandleNoExt \/ OpenFlag \/ WriteFlag

Download == ConnectFails \/ Connect \/ Read \/ ReadEnds

Rar == \E n \in Items : RarEnds(n)

Next == BEGIN \/ Timeout \/ Handling \/ Rar \/ Download \/ Crash \/ Publish

Spec == Init /\ [][Next]_vars

\* The updater is started, timers fire, the thread is scheduled, rar ends.
\* A server that can be reached again and again is reached at last.
Notified == /\ stIsDownloadOver \/ stNotifyServerOver
            /\ state' = "stWaitForCheckVersion"

Fairness ==
  /\ WF_vars(BEGIN) /\ WF_vars(Handling) /\ WF_vars(Publish)
  /\ WF_vars(stWaitForCheckVersion) /\ WF_vars(stCheckForDownload)
  /\ WF_vars(stIsDownloadOver) /\ WF_vars(stDownloadOne)
  /\ WF_vars(stIsDownloadOK) /\ WF_vars(stNotifyServerOver)
  /\ WF_vars(Read) /\ WF_vars(ReadEnds) /\ WF_vars(Rar)
  /\ SF_vars(UpdateAnnounced) /\ SF_vars(Connect) /\ SF_vars(Notified)

FairSpec == Spec /\ Fairness

-----------------------------------------------------------------------------
\* Every variable has its type.
TypeOK ==
  /\ state \in Scheduled \cup Inside \cup Resting
  /\ list \in Seq([name : Items, size : Nat])
  /\ count \in Nat
  /\ worker \in {"none", "connect", "read", "ended"}
  /\ length \in Nat
  /\ closed \in BOOLEAN
  /\ downloaded \in [Names -> File]
  /\ locked \subseteq Items
  /\ rar \subseteq Items
  /\ video \in [Items -> Releases \cup {Absent}]
  /\ flag \in {0, 1}
  /\ release \in 0 .. MaxRelease
  /\ announced \in 0 .. release
  /\ finished \in 0 .. announced

\* The script starts a download only when the previous thread has ended, so
\* the parameters the thread reads from the session (m_httpUrl,
\* m_saveFullPath) are those of the item the script is waiting for.
OneThread ==
  /\ worker # "none" => state = "stIsDownloadOK" /\ count < Len(list)
  /\ ~closed => worker = "read" /\ name \in locked

\* A file is handed over only when no handle holds it any more (unrar opens
\* it) and all the announced bytes are in it. GetFileSize cannot tell a file
\* that is locked or absent from an empty one: where the announced size is 0,
\* which AddFile accepts, such a file is handed over, and nothing is promised.
HandedOverWhole ==
  [][state' = "HandleDownoadedFile" /\ Current.size > 0 =>
       /\ name \notin locked'
       /\ downloaded'[name].len = Current.size
       /\ worker' = "none"]_vars

\* The server is told that the update is finished only when every file of the
\* list was handed over, and then the flag tells autocover about them.
FlaggedBeforeFinished ==
  [][finished' # finished =>
       count = Len(list) /\ (list # <<>> => flag = 1)]_vars

\* An item is in place when it is unpacked, or copied to ../video, or left in
\* .\downloaded for autocover, in release r or a newer one.
InPlace(n, r) ==
  CASE Kind[n] = "rar" -> /\ downloaded[Payload[n]].rel >= r
                          /\ IsWhole(Payload[n], downloaded[Payload[n]])
    [] Kind[n] = "media" -> video[n] >= r
    [] OTHER -> downloaded[n].rel >= r /\ IsWhole(n, downloaded[n])

\* The length tells item n of release r from its older versions.
Told(n, r) == \A q \in 1 .. r - 1 : Size[n][q] # Size[n][r]

\* However connections are refused and answers lost, as long as nothing fails on
\* this machine and no download is cut off: the server is told that a release is
\* finished only when each of its files (of an announced size other than 0) is in
\* place, in that release where the length tells it from the older ones. Where it
\* does not, a file that is already there is taken for the new one after a refused
\* connection, and some whole release of it is in place.
FinishedIsInPlace ==
  [][finished' # finished =>
       \A i \in 1 .. Len(Manifest[finished']) :
          LET n == Manifest[finished'][i]
          IN  Size[n][finished'] > 0 =>
                InPlace(n, IF Told(n, finished') THEN finished' ELSE 1)]_vars

\* The item waited for has another length by now: the list, which is not asked
\* for again, announces what cannot be downloaded any more.
Outdated == count < Len(list) /\ Current.size # Size[name][release]

\* Every release the server publishes is at last reported as finished, unless
\* the update stands forever at an item that a newer release has changed.
EventuallyUpToDate == <>(finished = MaxRelease) \/ <>[]Outdated

\* autoupdate.lua:376: a file of the wrong size has to be downloaded again.
\* Whenever that is scheduled, the file can be created anew.
RedownloadPossible == state = "stDownloadOne" => name \notin locked

\* autoupdate.lua:401: the server is told that the downloads are complete.
\* The list then is the one the server announced.
FinishedIsWhatWasAnnounced ==
  [][finished' # finished => Len(list) = Len(Manifest[announced])]_vars
=============================================================================
