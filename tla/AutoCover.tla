----------------------------- MODULE AutoCover -----------------------------
(***************************************************************************)
(* autocover/main.cpp: the program that copies the files of                *)
(* ./autoupdate/downloaded over the installed ones.  It runs whenever it   *)
(* is started, beside the updater, which works on the same directory and   *)
(* the same flag file.                                                     *)
(*                                                                         *)
(* downloaded and flag are shared with the updater; held and locked, the   *)
(* files the updater and the rar it runs have open, are inputs of this     *)
(* module.                                                                 *)
(***************************************************************************)
EXTENDS Integers

CONSTANTS
  Names,      \* names of files in the directory
  CoverFaults \* the failures that may happen

CoverFaultKinds == {"kill", "others", "search", "open", "read", "write",
                    "flush", "delete", "flag", "start", "started", "crash"}

VARIABLES
  downloaded, \* the files of COVER_SOURCE_DIR
  held,       \* those of them another process has open
  locked,     \* those of them it does not let others read
  flag,       \* needupdate in UPDATE_FLAG_FILE
  installed,  \* the files of COVER_DST_DIR
  main,       \* whether the main program runs
  cover,      \* where this program stands
  due,        \* the files there were when the search under way began
  seen,       \* the files it has returned
  copying,    \* the file being copied: {} or {n}
  leaked      \* the sources whose handle a failed copyFile left open

search    == <<due, seen>>
handles   == <<copying, leaked>>
coverVars == <<installed, main, cover, search, handles>>

Steps == {"off", "killOthers", "CopyDir", "DelDir", "openFlag", "StartProgram"}

\* A file that is not there, and what fopen(name, "wb") leaves of one.
Missing == [rel |-> 0, len |-> 0]
Emptied(f) == [f EXCEPT !.len = 0]
Present == {n \in Names : downloaded[n] # Missing}

CoverInit ==
  /\ installed = [n \in Names |-> Missing]
  /\ main = TRUE
  /\ cover = "off"
  /\ due = {} /\ seen = {} /\ copying = {} /\ leaked = {}

\* Mutant: what CopyDir and DelDir return is not looked at.
BeginSearchIgnored(step) ==
  \/ cover' = step /\ due' = Present /\ seen' = {}
  \/ "search" \in CoverFaults /\ cover' = "openFlag" /\ UNCHANGED search

\* Mutant: the program returns when CopyDir or DelDir fails.
BeginSearchReturns(step) ==
  \/ cover' = step /\ due' = Present /\ seen' = {}
  \/ "search" \in CoverFaults /\ cover' = "off" /\ UNCHANGED search

\* _findfirst, which may fail: CopyDir and DelDir then return -3.
BeginSearch(step) ==
  \/ cover' = step /\ due' = Present /\ seen' = {}
  \/ "search" \in CoverFaults /\ cover' = "StartProgram" /\ UNCHANGED search

\* _findnext: the files that were there are all returned, unless deleted
\* meanwhile; a file that came in the meantime may be returned.
Next1(n) == n \in Present \ seen /\ seen' = seen \cup {n}
EndSearch == due \cap Present \subseteq seen

\* Mutant: the flag is cleared when it is read.
StartCoverClears ==
  /\ cover = "off" /\ flag = 1
  /\ flag' = 0
  /\ main' = FALSE /\ cover' = "killOthers"
  /\ UNCHANGED <<downloaded, installed, search, handles>>

\* The program is started while no instance of it runs, and the flag is set.
\* It ends the main program, or returns 1.
StartCover ==
  /\ cover = "off" /\ flag = 1
  /\ \/ main' = FALSE /\ cover' = "killOthers"
     \/ "kill" \in CoverFaults /\ UNCHANGED <<main, cover>>
  /\ UNCHANGED <<downloaded, flag, installed, search, handles>>

\* The processes of the [kill] section. What becomes of the updater is added
\* where the two are composed.
KillOthers ==
  /\ cover = "killOthers"
  /\ BeginSearch("CopyDir")
  /\ UNCHANGED <<flag, installed, main, handles>>

\* copyFile opens the source, which may fail while another process has it open,
\* and truncates the target; if that fails (the main program, started again,
\* runs it) the source stays open. CopyDir ignores what copyFile returns.
BeginCopyFile(n) ==
  /\ cover = "CopyDir" /\ copying = {}
  /\ Next1(n)
  /\ \/ /\ n \notin locked
        /\ installed' = [installed EXCEPT ![n] = Emptied(downloaded[n])]
        /\ copying' = {n} /\ UNCHANGED leaked
     \/ /\ n \notin locked /\ "open" \in CoverFaults
        /\ leaked' = leaked \cup {n} /\ UNCHANGED <<installed, copying>>
     \/ n \in held /\ UNCHANGED <<installed, handles>>
  /\ UNCHANGED <<downloaded, flag, main, cover, due>>

\* Mutant: both files are closed when a write fails.
EndCopyFileCloses(n) ==
  /\ n \in copying
  /\ \/ installed' = [installed EXCEPT ![n] = downloaded[n]]
     \/ "write" \in CoverFaults /\ UNCHANGED installed
  /\ copying' = {}
  /\ UNCHANGED <<downloaded, flag, main, cover, search, leaked>>

\* The source as it is now is in the target; or reading ended early, which
\* looks like the end of the file, or the last buffer could not be written when
\* fclose flushed it, which nobody looks at: both are closed all the same; or
\* fwrite itself failed, and both stay open.
EndCopyFile(n) ==
  /\ n \in copying
  /\ \/ installed' = [installed EXCEPT ![n] = downloaded[n]] /\ UNCHANGED leaked
     \/ /\ {"read", "flush"} \cap CoverFaults # {}
        /\ UNCHANGED <<installed, leaked>>
     \/ /\ "write" \in CoverFaults
        /\ leaked' = leaked \cup {n} /\ UNCHANGED installed
  /\ copying' = {}
  /\ UNCHANGED <<downloaded, flag, main, cover, search>>

EndCopyDir ==
  /\ cover = "CopyDir" /\ copying = {} /\ EndSearch
  /\ BeginSearch("DelDir")
  /\ UNCHANGED <<downloaded, flag, installed, main, handles>>

\* DeleteFile, whose result is ignored, fails for a file that is open, be it
\* by copyFile itself.
DeleteFile(n) ==
  /\ cover = "DelDir"
  /\ Next1(n)
  /\ \/ /\ n \notin held \cup leaked
        /\ downloaded' = [downloaded EXCEPT ![n] = Missing]
     \/ /\ n \in held \cup leaked \/ "delete" \in CoverFaults
        /\ UNCHANGED downloaded
  /\ UNCHANGED <<flag, installed, main, cover, due, handles>>

EndDelDir ==
  /\ cover = "DelDir" /\ EndSearch
  /\ cover' = "openFlag"
  /\ UNCHANGED <<downloaded, flag, installed, main, search, handles>>

\* fopen(..., "w") fails twice, or needupdate=0 is written.
ClearFlag ==
  /\ cover = "openFlag"
  /\ flag' = 0 \/ ("flag" \in CoverFaults /\ UNCHANGED flag)
  /\ cover' = "StartProgram"
  /\ UNCHANGED <<downloaded, installed, main, search, handles>>

\* The end of the process closes what copyFile left open.
Ended == /\ cover' = "off" /\ due' = {} /\ seen' = {}
         /\ copying' = {} /\ leaked' = {}

\* The last step of every return after the main program was ended.
StartProgram ==
  /\ cover = "StartProgram"
  /\ main' = TRUE \/ ("start" \in CoverFaults /\ UNCHANGED main)
  /\ Ended
  /\ UNCHANGED <<downloaded, flag, installed>>

CoverCrash ==
  /\ "crash" \in CoverFaults /\ cover # "off"
  /\ Ended
  /\ UNCHANGED <<downloaded, flag, installed, main>>

\* Every step but KillOthers, which the composed system completes.
CoverStep ==
  \/ StartCover \/ EndCopyDir \/ EndDelDir \/ ClearFlag \/ StartProgram
  \/ \E n \in Names : BeginCopyFile(n) \/ EndCopyFile(n) \/ DeleteFile(n)
=============================================================================
