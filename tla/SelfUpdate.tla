----------------------------- MODULE SelfUpdate -----------------------------
(***************************************************************************)
(* The program replaces itself (handlers/web/update.go, main.go): a        *)
(* request to install downloads the newest release, verifies it, puts it   *)
(* in place of the executable and lets a child process start it after the  *)
(* server has left.  Requests are not serialized, each call of the file    *)
(* system is one step, and the process can die between any two.            *)
(*                                                                         *)
(* A file is known by the version of the program in it.  The build is one  *)
(* that may update itself (CanAutoUpdate).                                 *)
(***************************************************************************)
EXTENDS Naturals

CONSTANTS
  Installers,    \* requests to install in progress at a time
  MaxVersion,    \* bound: versions released
  Hollow,        \* versions whose archive does not hold the program
  MaxInstalls,   \* bound: requests to install
  MaxStops       \* bound: times the process dies of something else

SelfUpdateAssumption ==
  MaxVersion \in Nat \ {0} /\ Hollow \subseteq 2..MaxVersion /\ MaxInstalls \in Nat /\ MaxStops \in Nat

NoFile == 0
Damaged == MaxVersion + 1     \* what a broken download contains
Versions == 1..MaxVersion
NoProcess == 0

VARIABLES
  published,    \* the newest release on GitHub
  executable,   \* the file the program is started from
  previous,     \* the file beside it with the suffix .previous
  running,      \* the version of the process that serves requests
  installs,     \* Installers -> its request
  children,     \* processes that sleep a second and then start the executable
  leaving,      \* the process exits within 300 ms
  promised,     \* this process has answered that a newer version is about to start
  unrestarted,  \* this process has failed to start a child
  asked, stops  \* bounds

files == <<executable, previous>>
process == <<running, children, leaving, promised, unrestarted>>
vars == <<published, files, process, installs, asked, stops>>

\* alone: no other request overlapped; found: the executable when the request came.
NoInstall == [step |-> "none", release |-> 0, found |-> 0, alone |-> FALSE]
AtWork(h) == installs[h].step \notin {"none", "refused"}
Continue(h, step) == installs' = [installs EXCEPT ![h].step = step]

Init ==
  /\ published \in Versions /\ executable = 1 /\ previous = NoFile /\ running = 1
  /\ installs = [h \in Installers |-> NoInstall]
  /\ children = 0 /\ leaving = FALSE /\ promised = FALSE /\ unrestarted = FALSE
  /\ asked = 0 /\ stops = 0

TypeOK ==
  /\ published \in Versions /\ running \in {NoProcess} \cup Versions
  /\ {executable, previous} \subseteq 0..MaxVersion + 1
  /\ installs \in [Installers ->
       [step : {"none", "refused", "download", "write", "unlink", "link", "rename", "restart",
                "restore"},
        release : 0..MaxVersion, found : 0..MaxVersion + 1, alone : BOOLEAN]]
  /\ children \in 0..MaxInstalls /\ asked \in 0..MaxInstalls /\ stops \in 0..MaxStops
  /\ {leaving, promised, unrestarted} \subseteq BOOLEAN

-----------------------------------------------------------------------------
(* HandleInstall.                                                          *)

\* The API, and the redirect of the web page when it does not answer, name the newest release.
Latest == published

\* newerVersion
Newer(candidate, current) == candidate > current

\* The release is looked up, over the API or the redirect of the web page, and compared with
\* the version of this process.  A request that finds nothing newer changes nothing.
Request(h) ==
  /\ running # NoProcess /\ ~AtWork(h) /\ Newer(Latest, running)
  /\ asked < MaxInstalls /\ asked' = asked + 1
  /\ LET alone == \A o \in Installers : ~AtWork(o)
     IN  installs' = [o \in Installers |->
           IF o = h THEN [step |-> "download", release |-> Latest,
                          found |-> executable, alone |-> alone]
           ELSE [installs[o] EXCEPT !.alone = FALSE]]
  /\ UNCHANGED <<published, files, process, stops>>

\* As if the digest were not looked at.
VerifiedAny(archive, release) == TRUE

\* What the digest of the manifest says of a download of a release.
Verified(archive, release) == archive = release

\* What a download of a release can bring.
Downloads(release) == {release, Damaged}

\* Whether an archive has the program in it.
HoldsProgram(archive) == archive \notin Hollow

\* The manifest and the archive arrive and are verified, or the time runs out.
Download(h) ==
  /\ installs[h].step = "download"
  /\ \/ \E archive \in Downloads(installs[h].release) :
          IF Verified(archive, installs[h].release) /\ HoldsProgram(archive)
            THEN installs' = [installs EXCEPT ![h].step = "write", ![h].release = archive]
            ELSE Continue(h, "refused")
     \/ Continue(h, "refused")
  /\ UNCHANGED <<published, files, process, asked, stops>>

\* replaceExecutable: a temporary file with the new program is written beside the executable.
Write(h) ==
  /\ installs[h].step = "write"
  /\ Continue(h, "unlink") \/ Continue(h, "refused")
  /\ UNCHANGED <<published, files, process, asked, stops>>

Unlink(h) ==
  /\ installs[h].step = "unlink"
  /\ previous' = NoFile /\ Continue(h, "link")
  /\ UNCHANGED <<published, executable, process, asked, stops>>

\* As if the executable were moved out of the way.
LinkByMoving(h) ==
  /\ installs[h].step = "link"
  /\ previous' = executable /\ executable' = NoFile /\ Continue(h, "rename")
  /\ UNCHANGED <<published, process, asked, stops>>

\* A link is refused if its name is taken: another request was faster.
Link(h) ==
  /\ installs[h].step = "link"
  /\ IF previous = NoFile
       THEN previous' = executable /\ Continue(h, "rename")
       ELSE Continue(h, "refused") /\ UNCHANGED previous
  /\ UNCHANGED <<published, executable, process, asked, stops>>

Rename(h) ==
  /\ installs[h].step = "rename"
  /\ \/ executable' = installs[h].release /\ Continue(h, "restart") /\ UNCHANGED previous
     \/ previous' = NoFile /\ Continue(h, "refused") /\ UNCHANGED executable
  /\ UNCHANGED <<published, process, asked, stops>>

\* A child is started and the process is about to leave, or no child can be started.
Restart(h) ==
  /\ installs[h].step = "restart"
  /\ \/ /\ children' = children + 1 /\ leaving' = TRUE /\ promised' = TRUE
        /\ Continue(h, "none") /\ UNCHANGED unrestarted
     \/ /\ unrestarted' = TRUE /\ Continue(h, "restore")
        /\ UNCHANGED <<children, leaving, promised>>
  /\ UNCHANGED <<published, files, running, asked, stops>>

\* restoreExecutable: the previous file is renamed, if it is there.
PutBack ==
  IF previous = NoFile THEN UNCHANGED files ELSE executable' = previous /\ previous' = NoFile

\* As if nothing were put back.
RestoreNothing(h) ==
  /\ installs[h].step = "restore" /\ Continue(h, "refused")
  /\ UNCHANGED <<published, files, process, asked, stops>>

\* Its error is not looked at.
Restore(h) ==
  /\ installs[h].step = "restore"
  /\ PutBack
  /\ Continue(h, "refused")
  /\ UNCHANGED <<published, process, asked, stops>>

-----------------------------------------------------------------------------
(* The process and its children.                                           *)

\* No request outlives its process, nor does what it answered.
Die ==
  /\ running' = NoProcess /\ leaving' = FALSE /\ promised' = FALSE /\ unrestarted' = FALSE
  /\ installs' = [h \in Installers |-> NoInstall]

Exit == leaving /\ Die /\ UNCHANGED <<published, files, children, asked, stops>>

Kill ==
  /\ running # NoProcess /\ stops < MaxStops /\ stops' = stops + 1
  /\ Die /\ UNCHANGED <<published, files, children, asked>>

\* A child wakes up after the process that made it has left (1 s against 300 ms).  It starts
\* what it finds, and gives up if another one has the port.
Wake ==
  /\ children > 0 /\ ~leaving /\ children' = children - 1
  /\ running' = IF running = NoProcess /\ executable \in Versions THEN executable ELSE running
  /\ UNCHANGED <<published, files, leaving, promised, unrestarted, installs, asked, stops>>

\* A supervisor, or the operator, starts the program.
Start ==
  /\ running = NoProcess /\ executable \in Versions /\ running' = executable
  /\ UNCHANGED <<published, files, children, leaving, promised, unrestarted, installs, asked,
                 stops>>

Publish ==
  /\ published < MaxVersion /\ published' = published + 1
  /\ UNCHANGED <<files, process, installs, asked, stops>>

Next ==
  \/ \E h \in Installers :
       \/ Request(h) \/ Download(h) \/ Write(h) \/ Unlink(h) \/ Link(h) \/ Rename(h)
       \/ Restart(h) \/ Restore(h)
  \/ Exit \/ Kill \/ Wake \/ Start \/ Publish

Spec == Init /\ [][Next]_vars

-----------------------------------------------------------------------------
(* Properties.                                                             *)

\* Whenever the process dies, a verified program that is not older than it can be started.
StartsAgain == executable \in 1..published \ Hollow /\ executable >= running

\* A request that is refused, with no other one under way, leaves the executable as it was,
\* wherever it failed.
RefusedChangesNothing ==
  \A h \in Installers :
    installs[h].step = "refused" /\ installs[h].alone => executable = installs[h].found

\* After an answer that the new version starts, what starts is newer than what answered,
\* unless another request of that process could not start its child and put a file back.
PromisedIsInstalled == promised /\ ~unrestarted => executable > running

UpdateIsSafe == StartsAgain /\ RefusedChangesNothing /\ PromisedIsInstalled
=============================================================================
