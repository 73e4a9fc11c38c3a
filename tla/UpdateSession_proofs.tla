------------------------ MODULE UpdateSession_proofs ------------------------
(***************************************************************************)
(* Theorems about UpdateSession, for every set of files, every list the    *)
(* server announces, every length and every combination of failures.       *)
(***************************************************************************)
EXTENDS UpdateSession, TLAPS

Item == [name : Items, size : Nat]

\* The inductive invariant: where each function of the script finds the list,
\* the thread, the file and the flag.
Downloading == {"stDownloadOne", "stIsDownloadOK"}
InHand      == {"HandleDownoadedFile", "unrar"}

ListInv ==
  /\ count <= Len(list)
  /\ state \in Downloading \cup InHand => count < Len(list)
  /\ state = "stNotifyServerOver" => count = Len(list)
  /\ list # <<>> => release \in Releases

ThreadInv ==
  /\ worker # "none" => state = "stIsDownloadOK"
  /\ ~closed => worker = "read" /\ name \in locked

UnrarInv ==
  /\ state = "unrar" => Kind[name] = "rar"
  /\ \A n \in rar : Kind[n] = "rar" /\ downloaded[n].rel \in Releases

\* These three hold whatever autocover does to the files; the other two only as
\* long as nobody else changes the files and the flag.
BaseInv == ListInv /\ ThreadInv /\ UnrarInv

HandInv ==
  state = "HandleDownoadedFile" /\ Current.size > 0 =>
    name \notin locked /\ downloaded[name].len = Current.size

FlagInv == count > 0 /\ state \notin {"OpenFlag", "WriteFlag"} => flag = 1

FilesInv == HandInv /\ FlagInv

SessionInv == BaseInv /\ FilesInv

-----------------------------------------------------------------------------
\* The item being worked on is an item of the list.
LEMMA ItemInHand ==
  ASSUME TypeOK, count < Len(list)
  PROVE  /\ Current \in Item
         /\ name \in Items /\ name \in Names
         /\ Current.size \in Nat
<1>1. list \in Seq(Item) /\ count + 1 \in 1 .. Len(list)
  BY DEF TypeOK, Item
<1>2. list[count + 1] \in Item
  BY <1>1
<1> QED
  BY <1>2, ConstantsAssumption DEF Current, name, Item

\* What the server announces, cut or not, is a list of items.
LEMMA ReceivedType ==
  ASSUME NEW r \in Releases, NEW lines \in Received(r)
  PROVE  lines \in Seq(Item)
<1> DEFINE whole == [i \in 1 .. Len(Manifest[r]) |-> Line(Manifest[r][i], r)]
<1>1. Manifest[r] \in Seq(Items) /\ Len(Manifest[r]) \in Nat
  BY ConstantsAssumption
<1>2. ASSUME NEW i \in 1 .. Len(Manifest[r])
      PROVE  Line(Manifest[r][i], r) \in Item
  <2>1. Manifest[r][i] \in Items
    BY <1>1
  <2>2. Size[Manifest[r][i]][r] \in Nat
    BY <2>1, ConstantsAssumption
  <2> QED
    BY <2>1, <2>2 DEF Line, Item
<1>3. whole \in Seq(Item) /\ Len(whole) = Len(Manifest[r])
  BY <1>1, <1>2
<1> HIDE DEF whole
<1>4. CASE lines = whole
  BY <1>3, <1>4
<1>5. ASSUME NEW k \in 0 .. Len(whole), lines = SubSeq(whole, 1, k)
      PROVE  lines \in Seq(Item)
  BY <1>3, <1>5
<1>6. ASSUME NEW s \in 1 .. IF whole = <<>> THEN 0 ELSE whole[Len(whole)].size,
             lines = [whole EXCEPT ![Len(whole)].size = s]
      PROVE  lines \in Seq(Item)
  <2>1. whole # <<>> /\ Len(whole) \in 1 .. Len(whole)
    BY <1>3, <1>6
  <2>2. whole[Len(whole)] \in Item
    BY <1>3, <2>1
  <2>3. [whole[Len(whole)] EXCEPT !.size = s] \in Item
    BY <1>6, <2>1, <2>2 DEF Item
  <2> QED
    BY <1>3, <1>6, <2>1, <2>3
<1> QED
  BY <1>4, <1>5, <1>6 DEF Received, whole

-----------------------------------------------------------------------------
\* The end of the process leaves a state like the first one.
LEMMA DieInv ==
  ASSUME TypeOK, BaseInv, Die
  PROVE  TypeOK' /\ BaseInv' /\ (FilesInv => FilesInv')
<1>1. rar' \subseteq rar
  BY DEF Die
<1>2. TypeOK'
  BY <1>1 DEF TypeOK, Die, server, Resting
<1>3. BaseInv' /\ (FilesInv => FilesInv')
  BY <1>1 DEF TypeOK, Die, server, BaseInv, ListInv, ThreadInv,
         UnrarInv, FilesInv, HandInv, FlagInv,
         Downloading, InHand
<1> QED
  BY <1>2, <1>3

\* rar writes a file that is no item: neither the script's file nor any archive.
LEMMA RarInv ==
  ASSUME TypeOK, BaseInv, NEW n \in Items, RarEnds(n)
  PROVE  TypeOK' /\ BaseInv' /\ (FilesInv => FilesInv')
<1>1. /\ n \in rar /\ n \in Names /\ Payload[n] \in Names \ Items
      /\ downloaded[n].rel \in Releases
  BY ConstantsAssumption DEF RarEnds, BaseInv, UnrarInv
<1>2. Whole(Payload[n], downloaded[n].rel) \in File
  BY <1>1, ConstantsAssumption DEF Whole, File
<1>3. /\ downloaded' \in [Names -> File]
      /\ \A i \in Items : downloaded'[i] = downloaded[i]
  <2>1. downloaded \in [Names -> File] /\ Items \subseteq Names
    BY ConstantsAssumption DEF TypeOK
  <2>2. \/ downloaded' = downloaded
        \/ \E p \in Names \ Items, f \in File : downloaded' = [downloaded EXCEPT ![p] = f]
    BY <1>1, <1>2 DEF RarEnds
  <2> QED
    BY <2>1, <2>2
<1>4. TypeOK'
  BY <1>3 DEF TypeOK, RarEnds, script, thread, server
<1>5. count < Len(list) => name \in Items
  BY ItemInHand
<1>6. BaseInv' /\ (FilesInv => FilesInv')
  BY <1>3, <1>5 DEF TypeOK, RarEnds, script, thread, server, BaseInv, ListInv, ThreadInv,
         UnrarInv, FilesInv, HandInv, FlagInv, Downloading, InHand, name, Current
<1> QED
  BY <1>4, <1>6

\* Starting a download of an item that is left.
LEMMA StartDownloadInv ==
  ASSUME TypeOK, BaseInv, StartDownload, count < Len(list),
         state \in Scheduled \ {"stIsDownloadOK"}
  PROVE  TypeOK' /\ BaseInv' /\ (FilesInv => FilesInv')
<1>1. TypeOK'
  BY DEF TypeOK, StartDownload, files, server, Scheduled
<1>2. BaseInv' /\ (FilesInv => FilesInv')
  BY DEF TypeOK, StartDownload, files, server, Scheduled, BaseInv, ListInv, ThreadInv,
         UnrarInv, FilesInv, HandInv, FlagInv, Downloading, InHand, name, Current
<1> QED
  BY <1>1, <1>2

\* Telling the server, when no item is left.
LEMMA NotifyServerInv ==
  ASSUME TypeOK, BaseInv, NotifyServer, count = Len(list),
         state \in {"stDownload", "stIsDownloadOver", "stNotifyServerOver"}
  PROVE  TypeOK' /\ BaseInv' /\ (FilesInv => FilesInv')
<1>1. TypeOK'
  BY DEF TypeOK, NotifyServer, thread, files, Scheduled
<1>2. BaseInv' /\ (FilesInv => FilesInv')
  BY DEF TypeOK, NotifyServer, thread, files, BaseInv, ListInv, ThreadInv,
         UnrarInv, FilesInv, HandInv, FlagInv, Downloading, InHand, name, Current
<1> QED
  BY <1>1, <1>2

\* What a timeout calls.
LEMMA TimeoutInv ==
  ASSUME TypeOK, BaseInv, Timeout
  PROVE  TypeOK' /\ BaseInv' /\ (FilesInv => FilesInv')
<1> USE DEF Downloading, InHand
<1>1. CASE stWaitForCheckVersion
  BY <1>1 DEF TypeOK, stWaitForCheckVersion, thread, files, server, Scheduled,
       BaseInv, ListInv, ThreadInv,
         UnrarInv, FilesInv, HandInv, FlagInv, name, Current
<1>2. CASE NothingToDo
  BY <1>2 DEF TypeOK, NothingToDo, thread, files, server, Scheduled,
       BaseInv, ListInv, ThreadInv,
         UnrarInv, FilesInv, HandInv, FlagInv, name, Current
<1>3. CASE UpdateAnnounced
  <2>1. PICK lines \in Received(release) : list' = list \o lines
    BY <1>3 DEF UpdateAnnounced
  <2>2. release \in Releases
    BY <1>3, ConstantsAssumption DEF UpdateAnnounced, TypeOK, Releases
  <2>3. lines \in Seq(Item) /\ list \in Seq(Item)
    BY <2>1, <2>2, ReceivedType DEF TypeOK, Item
  <2>4. list' \in Seq(Item) /\ Len(list') >= Len(list)
    BY <2>1, <2>3
  <2>5. TypeOK'
    BY <1>3, <2>4 DEF TypeOK, UpdateAnnounced, thread, files, Scheduled, Item
  <2>6. BaseInv' /\ (FilesInv => FilesInv')
    BY <1>3, <2>2, <2>3, <2>4 DEF TypeOK, UpdateAnnounced, thread, files,
         BaseInv, ListInv, ThreadInv,
         UnrarInv, FilesInv, HandInv, FlagInv, name, Current
  <2> QED
    BY <2>5, <2>6
<1>4. CASE stCheckForDownload
  BY <1>4 DEF TypeOK, stCheckForDownload, thread, files, server, Scheduled,
       BaseInv, ListInv, ThreadInv,
         UnrarInv, FilesInv, HandInv, FlagInv, name, Current
<1>5. CASE stIsDownloadOver
  <2>1. CASE count < Len(list)
    BY <1>5, <2>1, StartDownloadInv DEF stIsDownloadOver, Scheduled
  <2>2. CASE ~(count < Len(list))
    <3>1. count = Len(list)
      BY <2>2 DEF TypeOK, BaseInv, ListInv
    <3> QED
      BY <1>5, <2>2, <3>1, NotifyServerInv DEF stIsDownloadOver
  <2> QED
    BY <2>1, <2>2
<1>6. CASE stDownloadOne
  BY <1>6, StartDownloadInv DEF stDownloadOne, Scheduled, BaseInv, ListInv
<1>7. CASE stIsDownloadOK
  <2>1. Current.size \in Nat
    BY <1>7, ItemInHand DEF stIsDownloadOK, BaseInv, ListInv
  <2>2. state' = "HandleDownoadedFile" /\ Current.size > 0 =>
          name \notin locked /\ downloaded[name].len = Current.size
    BY <1>7, <2>1 DEF stIsDownloadOK, SavedSize
  <2>3. TypeOK'
    BY <1>7 DEF TypeOK, stIsDownloadOK, files, server, Scheduled, Inside
  <2>4. BaseInv' /\ (FilesInv => FilesInv')
    BY <1>7, <2>2 DEF TypeOK, stIsDownloadOK, files, server,
         BaseInv, ListInv, ThreadInv,
         UnrarInv, FilesInv, HandInv, FlagInv, name, Current
  <2> QED
    BY <2>3, <2>4
<1>8. CASE HeartbeatFails
  BY <1>8, DieInv DEF HeartbeatFails
<1>9. CASE stNotifyServerOver
  BY <1>9, NotifyServerInv DEF stNotifyServerOver, BaseInv, ListInv
<1> QED
  BY <1>1, <1>2, <1>3, <1>4, <1>5, <1>6, <1>7, <1>8, <1>9 DEF Timeout

\* What HandleDownoadedFile and the lines after it do.
LEMMA HandlingInv ==
  ASSUME TypeOK, BaseInv, Handling
  PROVE  TypeOK' /\ BaseInv' /\ (FilesInv => FilesInv')
<1> USE DEF Downloading, InHand
<1>1. ASSUME state \in InHand
      PROVE  /\ count < Len(list) /\ name \in Items /\ name \in Names
             /\ Kind[name] = "rar" => Payload[name] \in Names
             /\ Removed(downloaded) \in [Names -> File]
  <2>1. count < Len(list) /\ name \in Items /\ name \in Names
    BY <1>1, ItemInHand DEF BaseInv, ListInv
  <2>2. Kind[name] = "rar" => Payload[name] \in Names
    BY <2>1, ConstantsAssumption
  <2>3. NoFile \in File
    BY DEF NoFile, File, Absent
  <2>4. Removed(downloaded) \in [Names -> File]
    BY <2>1, <2>3 DEF Removed, TypeOK
  <2> QED
    BY <2>1, <2>2, <2>4
<1>2. CASE BeginUnrar
  <2>1. downloaded[name].rel \in Releases /\ downloaded[name] \in File
    BY <1>1, <1>2 DEF BeginUnrar, Unpackable, Intact, IsWhole, TypeOK
  <2>2. [rel |-> downloaded[name].rel, len |-> 0] \in File
    BY <2>1 DEF File
  <2>3. Payload[name] \notin Items
    BY <1>1, <1>2, ConstantsAssumption DEF BeginUnrar
  <2>4. /\ downloaded' \in [Names -> File]
        /\ \A i \in Items : downloaded'[i] = downloaded[i]
    BY <1>1, <1>2, <2>1, <2>2, <2>3, ConstantsAssumption DEF BeginUnrar, TypeOK
  <2>5. TypeOK'
    BY <1>1, <1>2, <2>4 DEF TypeOK, BeginUnrar, thread, server, Inside
  <2>6. BaseInv' /\ (FilesInv => FilesInv')
    BY <1>1, <1>2, <2>1, <2>4 DEF TypeOK, BeginUnrar, thread, server,
         BaseInv, ListInv, ThreadInv,
         UnrarInv, FilesInv, HandInv, FlagInv, name, Current
  <2> QED
    BY <2>5, <2>6
<1>3. CASE EndUnrar
  <2>1. TypeOK'
    BY <1>1, <1>3 DEF TypeOK, EndUnrar, Handled, thread, server, Inside
  <2>2. BaseInv' /\ (FilesInv => FilesInv')
    BY <1>1, <1>3 DEF TypeOK, EndUnrar, Removed, Handled, thread, server,
         BaseInv, ListInv, ThreadInv,
         UnrarInv, FilesInv, HandInv, FlagInv
  <2> QED
    BY <2>1, <2>2
<1>4. CASE UnrarNothing
  <2>1. TypeOK'
    BY <1>1, <1>4 DEF TypeOK, UnrarNothing, Handled, thread, server, Inside
  <2>2. BaseInv' /\ (FilesInv => FilesInv')
    BY <1>1, <1>4 DEF TypeOK, UnrarNothing, Removed, Handled, thread, server,
         BaseInv, ListInv, ThreadInv,
         UnrarInv, FilesInv, HandInv, FlagInv
  <2> QED
    BY <2>1, <2>2
<1>5. CASE HandleMedia
  <2>1. video' \in [Items -> Releases \cup {Absent}]
    <3>1. downloaded[name].rel \in Releases \cup {Absent}
      BY <1>1, <1>5 DEF HandleMedia, TypeOK, File
    <3> QED
      BY <1>5, <3>1 DEF HandleMedia, TypeOK
  <2>2. TypeOK'
    BY <1>1, <1>5, <2>1 DEF TypeOK, HandleMedia, Handled, thread, server, Inside
  <2>3. BaseInv' /\ (FilesInv => FilesInv')
    BY <1>1, <1>5 DEF TypeOK, HandleMedia, Removed, Handled, thread, server,
         BaseInv, ListInv, ThreadInv,
         UnrarInv, FilesInv, HandInv, FlagInv
  <2> QED
    BY <2>2, <2>3
<1>6. CASE HandleNoExt
  <2>1. TypeOK'
    BY <1>6 DEF TypeOK, HandleNoExt, Handled, thread, files, server, Inside
  <2>2. BaseInv' /\ (FilesInv => FilesInv')
    BY <1>1, <1>6 DEF TypeOK, HandleNoExt, Handled, thread, files, server,
         BaseInv, ListInv, ThreadInv,
         UnrarInv, FilesInv, HandInv, FlagInv
  <2> QED
    BY <2>1, <2>2
<1>7. CASE OpenFlag
  <2>1. CASE Die
    BY <2>1, DieInv
  <2>2. CASE ~Die
    <3>1. TypeOK'
      BY <1>7, <2>2 DEF TypeOK, OpenFlag, thread, server, Inside
    <3>2. BaseInv' /\ (FilesInv => FilesInv')
      BY <1>7, <2>2 DEF TypeOK, OpenFlag, thread, server,
           BaseInv, ListInv, ThreadInv,
         UnrarInv, FilesInv, HandInv, FlagInv
    <3> QED
      BY <3>1, <3>2
  <2> QED
    BY <2>1, <2>2
<1>8. CASE WriteFlag
  <2>1. TypeOK'
    BY <1>8 DEF TypeOK, WriteFlag, thread, server, Scheduled
  <2>2. BaseInv' /\ (FilesInv => FilesInv')
    BY <1>8 DEF TypeOK, WriteFlag, thread, server,
         BaseInv, ListInv, ThreadInv,
         UnrarInv, FilesInv, HandInv, FlagInv
  <2> QED
    BY <2>1, <2>2
<1> QED
  BY <1>2, <1>3, <1>4, <1>5, <1>6, <1>7, <1>8 DEF Handling

\* What the download thread does.
LEMMA DownloadInv ==
  ASSUME TypeOK, BaseInv, Download
  PROVE  TypeOK' /\ BaseInv' /\ (FilesInv => FilesInv')
<1> USE DEF Downloading, InHand
<1>1. /\ state = "stIsDownloadOK" /\ count < Len(list) /\ release \in Releases
      /\ name \in Items /\ name \in Names
  <2>1. state = "stIsDownloadOK" /\ count < Len(list)
    BY DEF Download, ConnectFails, Connect, Read, ReadEnds, BaseInv, ListInv, ThreadInv
  <2>2. release \in Releases
    BY <2>1 DEF BaseInv, ListInv, TypeOK
  <2> QED
    BY <2>1, <2>2, ItemInHand
<1>2. CASE ConnectFails
  <2>1. TypeOK'
    BY <1>2 DEF TypeOK, ConnectFails, script, files, server
  <2>2. BaseInv' /\ (FilesInv => FilesInv')
    BY <1>1, <1>2 DEF TypeOK, ConnectFails, script, files, server,
         BaseInv, ListInv, ThreadInv,
         UnrarInv, FilesInv, HandInv, FlagInv, name, Current
  <2> QED
    BY <2>1, <2>2
<1>3. CASE Connect
  <2>1. [rel |-> release, len |-> 0] \in File
    BY <1>1 DEF File
  <2>2. length' \in Nat
    <3>1. Size[name][release] \in Nat
      BY <1>1, ConstantsAssumption
    <3> QED
      BY <1>3, <3>1, ConstantsAssumption DEF Connect
  <2>3. TypeOK'
    BY <1>1, <1>3, <2>1, <2>2 DEF TypeOK, Connect, script, server
  <2>4. BaseInv' /\ (FilesInv => FilesInv')
    BY <1>1, <1>3 DEF TypeOK, Connect, script, server,
         BaseInv, ListInv, ThreadInv,
         UnrarInv, FilesInv, HandInv, FlagInv, name, Current
  <2> QED
    BY <2>3, <2>4
<1>4. CASE Read
  <2>1. downloaded[name] \in File /\ downloaded[name].len \in Nat
    BY <1>1 DEF TypeOK, File
  <2>2. [downloaded[name] EXCEPT !.len = downloaded[name].len + 1] \in File
    BY <2>1 DEF File
  <2>3. downloaded' \in [Names -> File]
    BY <1>1, <1>4, <2>2 DEF TypeOK, Read
  <2>4. TypeOK'
    BY <1>1, <1>4, <2>3 DEF TypeOK, Read, script, server
  <2>5. BaseInv' /\ (FilesInv => FilesInv')
    BY <1>1, <1>4 DEF TypeOK, Read, script, server,
         BaseInv, ListInv, ThreadInv,
         UnrarInv, FilesInv, HandInv, FlagInv, name, Current
  <2> QED
    BY <2>4, <2>5
<1>5. CASE ReadEnds
  <2>1. TypeOK'
    BY <1>5 DEF TypeOK, ReadEnds, script, files, server
  <2>2. BaseInv' /\ (FilesInv => FilesInv')
    BY <1>1, <1>5 DEF TypeOK, ReadEnds, script, files, server,
         BaseInv, ListInv, ThreadInv,
         UnrarInv, FilesInv, HandInv, FlagInv, name, Current
  <2> QED
    BY <2>1, <2>2
<1> QED
  BY <1>2, <1>3, <1>4, <1>5 DEF Download

-----------------------------------------------------------------------------
\* The first state.
LEMMA InitInv == Init => TypeOK /\ SessionInv
<1> SUFFICES ASSUME Init PROVE TypeOK /\ SessionInv
  OBVIOUS
<1>1. NoFile \in File
  BY DEF NoFile, File, Absent
<1>2. TypeOK
  BY <1>1, ConstantsAssumption DEF Init, TypeOK, Resting, Absent
<1>3. SessionInv
  BY DEF Init, SessionInv, BaseInv, ListInv, ThreadInv, UnrarInv, FilesInv, HandInv,
         FlagInv, Downloading, InHand
<1> QED
  BY <1>2, <1>3

\* Every step.
LEMMA NextBase ==
  ASSUME TypeOK, BaseInv, [Next]_vars
  PROVE  TypeOK' /\ BaseInv' /\ (FilesInv => FilesInv')
<1>1. CASE BEGIN
  <2>1. TypeOK'
    BY <1>1 DEF TypeOK, BEGIN, thread, files, server, Scheduled, Resting
  <2>2. BaseInv' /\ (FilesInv => FilesInv')
    BY <1>1 DEF TypeOK, BEGIN, thread, files, server, BaseInv, ListInv,
         ThreadInv, UnrarInv, FilesInv, HandInv,
         FlagInv, Downloading, InHand
  <2> QED
    BY <2>1, <2>2
<1>2. CASE Timeout
  BY <1>2, TimeoutInv
<1>3. CASE Handling
  BY <1>3, HandlingInv
<1>4. CASE Download
  BY <1>4, DownloadInv
<1>5. CASE Crash
  BY <1>5, DieInv DEF Crash
<1>6. CASE Publish
  <2>1. release' \in Releases /\ release' \in 0 .. MaxRelease /\ release <= release'
    BY <1>6, ConstantsAssumption DEF Publish, TypeOK, Releases
  <2>2. TypeOK'
    BY <1>6, <2>1 DEF TypeOK, Publish, script, thread, files
  <2>3. BaseInv' /\ (FilesInv => FilesInv')
    BY <1>6, <2>1 DEF Publish, script, thread, files, BaseInv, ListInv,
         ThreadInv, UnrarInv, FilesInv, HandInv, FlagInv, Downloading, InHand, name, Current
  <2> QED
    BY <2>2, <2>3
<1>8. CASE Rar
  BY <1>8, RarInv DEF Rar
<1>7. CASE UNCHANGED vars
  <2>1. TypeOK'
    BY <1>7 DEF TypeOK, vars, script, thread, files, server
  <2>2. BaseInv' /\ (FilesInv => FilesInv')
    BY <1>7 DEF vars, script, thread, files, server, BaseInv, ListInv,
         ThreadInv, UnrarInv, FilesInv, HandInv, FlagInv, Downloading, InHand, name, Current
  <2> QED
    BY <2>1, <2>2
<1> QED
  BY <1>1, <1>2, <1>3, <1>4, <1>5, <1>6, <1>7, <1>8 DEF Next

LEMMA NextInv == TypeOK /\ SessionInv /\ [Next]_vars => TypeOK' /\ SessionInv'
  BY NextBase DEF SessionInv

\* The list, the thread, the files and the flag always fit the function the
\* script is in: the invariant every theorem below rests on.
THEOREM Invariance == Spec => [](TypeOK /\ SessionInv)
<1> QED
  BY InitInv, NextInv, PTL DEF Spec

\* Every variable of the session keeps its type, whatever the server announces
\* and whatever fails (autoupdate.lua, CDownloadCTL.cpp).
THEOREM TypeCorrect == Spec => []TypeOK
<1> QED
  BY Invariance, PTL

\* stDownloadOne and stIsDownloadOver never start a second download thread while
\* one runs, so m_httpUrl and m_saveFullPath stay those of the current item.
THEOREM AtMostOneThread == Spec => []OneThread
<1>1. TypeOK /\ SessionInv => OneThread
  BY DEF SessionInv, BaseInv, ListInv, ThreadInv, OneThread, Downloading
<1> QED
  BY <1>1, Invariance, PTL

\* stIsDownloadOK hands to HandleDownoadedFile only a file that no handle holds
\* and that has the announced length, unless the announced length is 0, which is
\* what GetFileSize says of a file that is locked or absent.
THEOREM OnlyWholeFilesHandedOver == Spec => HandedOverWhole
<1> DEFINE Whole1 == state' = "HandleDownoadedFile" /\ Current.size > 0 =>
                        /\ name \notin locked'
                        /\ downloaded'[name].len = Current.size
                        /\ worker' = "none"
<1>1. ASSUME TypeOK, SessionInv, [Next]_vars, TypeOK', SessionInv'
      PROVE  [Whole1]_vars
  <2> SUFFICES ASSUME ~(UNCHANGED vars), state' = "HandleDownoadedFile",
                      Current.size > 0
               PROVE  /\ name \notin locked'
                      /\ downloaded'[name].len = Current.size
                      /\ worker' = "none"
    BY DEF Whole1
  <2>1. worker' = "none"
    BY <1>1 DEF SessionInv, BaseInv, ThreadInv
  <2>2. count' = count /\ list' = list
    BY <1>1 DEF Next, Timeout, Handling, Rar, RarEnds, Download, BEGIN, Crash, Die, HeartbeatFails,
         Publish, stWaitForCheckVersion, NothingToDo, UpdateAnnounced,
         stCheckForDownload, stIsDownloadOver, StartDownload, NotifyServer,
         stDownloadOne, stIsDownloadOK, stNotifyServerOver, BeginUnrar, EndUnrar,
         UnrarNothing, HandleMedia, HandleNoExt, Handled, OpenFlag, WriteFlag,
         ConnectFails, Connect, Read, ReadEnds, script
  <2>3. name \notin locked' /\ downloaded'[name].len = Current.size
    BY <1>1, <2>2 DEF SessionInv, FilesInv, HandInv, name, Current
  <2> QED
    BY <2>1, <2>3
<1> QED
  BY <1>1, Invariance, NextInv, PTL DEF Spec, HandedOverWhole, Whole1

\* updateFinish is sent only when the list is through, and if the list was not
\* empty, updateflag.dat then says needupdate=1 to autocover.
THEOREM FlagBeforeFinish == Spec => FlaggedBeforeFinished
<1> DEFINE Flagged == finished' # finished =>
                        count = Len(list) /\ (list # <<>> => flag = 1)
<1>1. ASSUME TypeOK, SessionInv, [Next]_vars
      PROVE  [Flagged]_vars
  <2> SUFFICES ASSUME ~(UNCHANGED vars), finished' # finished
               PROVE  count = Len(list) /\ (list # <<>> => flag = 1)
    BY DEF Flagged
  <2>1. NotifyServer /\ (stIsDownloadOver \/ stNotifyServerOver)
    BY <1>1 DEF Next, Timeout, Handling, Rar, RarEnds, Download, BEGIN, Crash, Die, HeartbeatFails,
         Publish, stWaitForCheckVersion, NothingToDo, UpdateAnnounced,
         stCheckForDownload, stIsDownloadOver, StartDownload,
         stDownloadOne, stIsDownloadOK, stNotifyServerOver, BeginUnrar, EndUnrar,
         UnrarNothing, HandleMedia, HandleNoExt, OpenFlag, WriteFlag,
         ConnectFails, Connect, Read, ReadEnds, server
  <2>2. count = Len(list)
    <3>1. CASE stNotifyServerOver
      BY <1>1, <3>1 DEF stNotifyServerOver, SessionInv, BaseInv, ListInv
    <3>2. CASE stIsDownloadOver
      <4>1. ~(count < Len(list))
        BY <3>2 DEF stIsDownloadOver, StartDownload, server
      <4> QED
        BY <1>1, <4>1 DEF SessionInv, BaseInv, ListInv, TypeOK
    <3> QED
      BY <2>1, <3>1, <3>2
  <2>3. ASSUME list # <<>> PROVE flag = 1
    <3>1. count > 0
      BY <1>1, <2>2, <2>3 DEF TypeOK
    <3>2. state \notin {"OpenFlag", "WriteFlag"}
      BY <2>1 DEF stIsDownloadOver, stNotifyServerOver
    <3> QED
      BY <1>1, <3>1, <3>2 DEF SessionInv, FilesInv, FlagInv
  <2> QED
    BY <2>2, <2>3
<1> QED
  BY <1>1, Invariance, PTL DEF Spec, FlaggedBeforeFinished, Flagged
=============================================================================
