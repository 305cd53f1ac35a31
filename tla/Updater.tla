-------------------------------- MODULE Updater --------------------------------
(***************************************************************************)
(* The desktop client replaces its own binary                              *)
(* (src/internal/client/update.go): CheckUpdate, ApplyUpdate and           *)
(* CleanupOldBinary, run by the request handlers of any number of panels   *)
(* that were started from one executable.                                  *)
(*                                                                         *)
(* On Windows the file a process was started from can be renamed, but      *)
(* neither removed nor replaced.  A file is identified by the release it   *)
(* holds and by the handler that downloaded it.                            *)
(***************************************************************************)
EXTENDS Versions

CONSTANTS Procs,       \* processes
          Handlers,    \* pairs <<p, i>>: handlers of process p
          Histories,   \* versions that a feed publishes, oldest first
          Oversize,    \* releases whose asset exceeds the 200 MiB cap
          NoFile

Files == [rel : Nat, whole : BOOLEAN, by : Handlers \cup {NoFile}]

ASSUME UpdaterAssumption ==
  /\ \A h \in Handlers : h[1] \in Procs
  /\ \A r \in Histories : Len(r) \in Nat \ {0} /\ Oversize \subseteq 2 .. Len(r)
  /\ NoFile \notin Files

VARIABLES
  windows,    \* the platform
  releases,   \* what the feed publishes
  latest,     \* the release the feed shows
  exe, old,   \* the files at exe and exe.old
  tmp,        \* the temporary file of each handler
  image,      \* the file each process runs, NoFile if it does not run
  fresh,      \* processes that have not called CleanupOldBinary yet
  applying,         \* where ApplyUpdate of each handler is
  best        \* history: the newest release that exe has held

setting == <<windows, releases>>
updaterVars == <<setting, latest, exe, old, tmp, image, fresh, applying, best>>

File(r, h) == [rel |-> r, whole |-> r \notin Oversize, by |-> h]
Locked(f) == windows /\ f # NoFile /\ \E p \in Procs : image[p] = f
Newer(r, s) == isNewer(releases[r], releases[s])

\* exe gets file f.
Install(f) ==
  /\ exe' = f
  /\ best' = IF f.rel > best THEN f.rel ELSE best

Proceed(h, l) == applying' = [applying EXCEPT ![h] = l]

\* ApplyUpdate returns; its temporary file is removed.
Return(h) == Proceed(h, "idle") /\ tmp' = [tmp EXCEPT ![h] = NoFile]
-----------------------------------------------------------------------------
PublishRelease ==
  /\ latest < Len(releases)
  /\ latest' = latest + 1
  /\ UNCHANGED <<setting, exe, old, tmp, image, fresh, applying, best>>

\* A user starts the program; a truncated binary does not run.
Launch(p) ==
  /\ image[p] = NoFile /\ exe # NoFile /\ exe.whole
  /\ image' = [image EXCEPT ![p] = exe]
  /\ fresh' = fresh \cup {p}
  /\ UNCHANGED <<setting, latest, exe, old, tmp, applying, best>>

\* Best effort: the removal may fail.
CleanupOldBinary(p) ==
  /\ p \in fresh /\ fresh' = fresh \ {p}
  /\ IF ~windows \/ Locked(old) THEN UNCHANGED old ELSE old' \in {old, NoFile}
  /\ UNCHANGED <<setting, latest, exe, tmp, image, applying, best>>

\* A process ends, its handlers with it.
Exit(p) ==
  /\ image[p] # NoFile
  /\ image' = [image EXCEPT ![p] = NoFile]
  /\ fresh' = fresh \ {p}
  /\ applying' = [h \in Handlers |-> IF h[1] = p THEN "idle" ELSE applying[h]]
  /\ tmp' = [h \in Handlers |-> IF h[1] = p THEN NoFile ELSE tmp[h]]
  /\ UNCHANGED <<setting, latest, exe, old, best>>

\* The release shown is newer than the version running.  (What the temporary
\* file is to hold is settled here; it holds it after Download.)
CheckUpdate(h) ==
  /\ applying[h] = "idle" /\ image[h[1]] # NoFile /\ h[1] \notin fresh
  /\ Newer(latest, image[h[1]].rel)
  /\ Proceed(h, "download")
  /\ tmp' = [tmp EXCEPT ![h] = File(latest, h)]
  /\ UNCHANGED <<setting, latest, exe, old, image, fresh, best>>

\* Faulty variant of Download: the executable is moved aside on every platform.
UniformDownload(h) ==
  /\ applying[h] = "download"
  /\ Proceed(h, "remove")
  /\ UNCHANGED <<setting, latest, exe, old, tmp, image, fresh, best>>

\* The download is complete, or cut at the cap without an error.
Download(h) ==
  /\ applying[h] = "download"
  /\ Proceed(h, IF windows THEN "remove" ELSE "place")
  /\ UNCHANGED <<setting, latest, exe, old, tmp, image, fresh, best>>

\* _ = os.Remove(exe + ".old")
RemoveOld(h) ==
  /\ applying[h] = "remove"
  /\ IF Locked(old) THEN UNCHANGED old ELSE old' \in {old, NoFile}
  /\ Proceed(h, "aside")
  /\ UNCHANGED <<setting, latest, exe, tmp, image, fresh, best>>

\* Faulty variant of MoveAside: a failure is not an error.
IgnorantMoveAside(h) ==
  /\ applying[h] = "aside"
  /\ IF exe # NoFile /\ ~Locked(old)
     THEN old' = exe /\ exe' = NoFile
     ELSE UNCHANGED <<exe, old>>
  /\ Proceed(h, "place")
  /\ UNCHANGED <<setting, latest, tmp, image, fresh, best>>

\* os.Rename(exe, exe+".old")
MoveAside(h) ==
  /\ applying[h] = "aside" /\ exe # NoFile /\ ~Locked(old)
  /\ old' = exe /\ exe' = NoFile
  /\ Proceed(h, "place")
  /\ UNCHANGED <<setting, latest, tmp, image, fresh, best>>

\* os.Rename(tmpPath, exe)
Place(h) ==
  /\ applying[h] = "place" /\ ~Locked(exe)
  /\ Install(tmp[h])
  /\ Return(h)
  /\ UNCHANGED <<setting, latest, old, image, fresh>>

\* It fails; on Windows the old binary is moved back, if that succeeds.
PlaceFails(h) ==
  /\ applying[h] = "place"
  /\ \/ windows /\ old # NoFile /\ ~Locked(exe) /\ Install(old) /\ old' = NoFile
     \/ UNCHANGED <<exe, old, best>>
  /\ Return(h)
  /\ UNCHANGED <<setting, latest, image, fresh>>

\* An earlier step returns an error.
Fails(h) ==
  /\ applying[h] \in {"download", "aside"}
  /\ Return(h)
  /\ UNCHANGED <<setting, latest, exe, old, image, fresh, best>>

UpdaterInit ==
  /\ windows \in BOOLEAN /\ releases \in Histories
  /\ latest = 1
  /\ exe = [rel |-> 1, whole |-> TRUE, by |-> NoFile] /\ old = NoFile
  /\ tmp = [h \in Handlers |-> NoFile]
  /\ image = [p \in Procs |-> NoFile]
  /\ fresh = {}
  /\ applying = [h \in Handlers |-> "idle"]
  /\ best = 1

UpdaterNext ==
  \/ PublishRelease
  \/ \E p \in Procs : Launch(p) \/ CleanupOldBinary(p) \/ Exit(p)
  \/ \E h \in Handlers :
       \/ CheckUpdate(h) \/ Download(h) \/ RemoveOld(h) \/ MoveAside(h)
       \/ Place(h) \/ PlaceFails(h) \/ Fails(h)

UpdaterSpec == UpdaterInit /\ [][UpdaterNext]_updaterVars
-----------------------------------------------------------------------------
UpdaterTypeOK ==
  /\ windows \in BOOLEAN /\ releases \in Histories /\ latest \in 1 .. Len(releases)
  /\ exe \in Files \cup {NoFile} /\ old \in Files \cup {NoFile}
  /\ tmp \in [Handlers -> Files \cup {NoFile}]
  /\ image \in [Procs -> Files \cup {NoFile}]
  /\ fresh \subseteq Procs
  /\ applying \in [Handlers -> {"idle", "download", "remove", "aside", "place"}]
  /\ best \in Nat

\* Whatever handlers and processes do, and wherever they are killed, a whole
\* binary is left at exe or, on Windows only, at exe.old.
SomeBinarySurvives ==
  \E f \in {exe} \cup (IF windows THEN {old} ELSE {}) : f # NoFile /\ f.whole

\* A panel is offered the release that the feed shows exactly if that was
\* published after the one it runs: 1.10 after 1.9, 1.0.1 after 1.
OffersLaterReleases ==
  \A p \in Procs : image[p] # NoFile =>
    (Newer(latest, image[p].rel) <=> latest > image[p].rel)

\* "Downloads the newest desktop binary and replaces the running executable": no
\* update puts an older release in place of a newer one.
NeverDowngraded == exe # NoFile => exe.rel >= best

\* On Windows none does: a handler that comes late finds its exe locked or gone.
WindowsNeverDowngraded == windows => NeverDowngraded

\* The binary that an update has put in place is a complete one.
InstalledIsWhole == exe # NoFile => exe.whole

\* A number of x is raised over that of y, and the numbers to its left are kept;
\* y has 0 where it has no number.
Raised(x, y) ==
  \E i \in DOMAIN x : x[i] > Nth(y, i) /\ \A j \in 1 .. i - 1 : x[j] = Nth(y, j)

\* A history that is published in order: every version can be parsed, and raises
\* a number of the one before.
Ascending(r) ==
  /\ \A i \in 1 .. Len(r) : Parsable(r[i]) /\ parseVersion(r[i]) \in Seq(Nat)
  /\ \A i \in 1 .. Len(r) - 1 : Raised(parseVersion(r[i + 1]), parseVersion(r[i]))

\* What a step preserves: a handler at work has a process and a temporary file;
\* off Windows exe is always there; on Windows exe or exe.old is, the file a
\* process runs is one of them, and a handler that has moved exe aside is alone.
BinaryInv ==
  /\ \A p \in fresh : image[p] # NoFile
  /\ \A h \in Handlers : applying[h] # "idle" => image[h[1]] # NoFile /\ tmp[h] # NoFile
  /\ ~windows =>
       exe # NoFile /\ \A h \in Handlers : applying[h] \notin {"remove", "aside"}
  /\ windows =>
       /\ exe # NoFile \/ old # NoFile
       /\ \A p \in Procs : image[p] \in {exe, old, NoFile}
       /\ \A h \in Handlers : applying[h] = "place" =>
            exe = NoFile /\ \A g \in Handlers : applying[g] = "place" => g = h

\* Without oversized releases every file is whole.
WholeInv ==
  /\ exe # NoFile => exe.whole
  /\ old # NoFile => old.whole
  /\ \A h \in Handlers : tmp[h] # NoFile => tmp[h].whole

\* Every file holds a release that has been published.
ReleaseInv ==
  /\ exe # NoFile => exe.rel \in 1 .. latest
  /\ old # NoFile => old.rel \in 1 .. latest
  /\ \A h \in Handlers : tmp[h] # NoFile => tmp[h].rel \in 1 .. latest
  /\ \A p \in Procs : image[p] # NoFile => image[p].rel \in 1 .. latest

\* A handler at work is about to install a later release than its process runs,
\* and on Windows the latest release that was installed is still there.
OrderInv ==
  /\ \A h \in Handlers : applying[h] # "idle" => tmp[h].rel > image[h[1]].rel
  /\ windows => best = IF exe # NoFile THEN exe.rel ELSE old.rel
=============================================================================
