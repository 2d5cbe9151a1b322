---------------------------- MODULE SubtitleDedupe ----------------------------
(***************************************************************************)
(* The subtitle-dedupe CronJob (srt-dedupe.py) beside the three that share *)
(* its files or its schedule: Bazarr, which writes subtitles, Lingarr,     *)
(* which translates them, and quota-topup.py, which fills Lingarr's queue  *)
(* but pauses for the first 50 minutes of the dedupe's hour.               *)
(*                                                                         *)
(* A subtitle is its text, numbered, and its form: dense is worth          *)
(* collapsing, plain is not, merged is what the dedupe makes of dense.     *)
(* The clock is in one of three phases: pause is the dedupe's hour up to   *)
(* :45, slot is :45 to :50, open is the rest of the six hours.             *)
(***************************************************************************)
EXTENDS Naturals

CONSTANTS
    Files,     \* paths of *.srt files
    None,      \* no file
    Torn,      \* a file cut short
    MaxTexts,  \* bound on the subtitles that others write, over all files
    MaxFaults  \* bound on runs that die and files that cannot be read

Forms == {"dense", "plain", "merged"}
Subtitle == [text : Nat, form : Forms]

ASSUME DedupeAssumption ==
    /\ None # Torn /\ None \notin Files
    /\ None \notin Subtitle /\ Torn \notin Subtitle
    /\ MaxTexts \in Nat /\ MaxFaults \in Nat

VARIABLES
    phase,     \* the clock
    draining,  \* files whose translation was active when the pause began
    active,    \* Lingarr: files with a pending or running translation
    disk,      \* disk[f]: what is at the path
    backup,    \* backup[f]: what is at its path under --backup-dir
    run,       \* the dedupe: its step, what is left to scan, `todo`, the file in hand
    texts,     \* how many subtitles there were
    faults,    \* how many faults there were
    first,     \* history: first[f], what the first rewrite of f replaced
    raced,     \* history: files that others changed since they were planned
    spoiled    \* history: files whose copy was cut short, or that others changed
               \* between the copy and the first rewrite

files   == <<disk, backup>>
lingarr == <<active, draining>>
history == <<first, raced, spoiled>>
vars    == <<phase, lingarr, files, run, texts, faults, history>>

Nothing == [f \in Files |-> None]
Idle == [pc |-> "idle", scan |-> {}, todo |-> Nothing, file |-> None]
Planned == {f \in Files : run.todo[f] # None}

Init ==
    /\ phase = "open" /\ active = {} /\ draining = {}
    /\ disk = Nothing /\ backup = Nothing
    /\ run = Idle /\ texts = 0 /\ faults = 0
    /\ first = Nothing /\ raced = {} /\ spoiled = {}
-----------------------------------------------------------------------------
(* The others.                                                             *)

\* Somebody else puts c at f's path, or nothing.
Change(f, c) ==
    /\ disk' = [disk EXCEPT ![f] = c]
    /\ raced' = raced \union {f}
    /\ spoiled' = IF backup[f] # None /\ first[f] = None THEN spoiled \union {f} ELSE spoiled
    /\ UNCHANGED <<phase, lingarr, backup, run, faults, first>>

\* Bazarr downloads a subtitle, over the one it had if it found a better one.
Download(f) ==
    /\ texts < MaxTexts
    /\ texts' = texts + 1
    /\ \E form \in {"dense", "plain"} : Change(f, [text |-> texts + 1, form |-> form])

Delete(f) ==
    /\ disk[f] # None
    /\ Change(f, None)
    /\ UNCHANGED texts

\* MUTANT: quota-topup does not pause.
RequestAnytime(f) ==
    /\ disk[f] # None
    /\ active' = active \union {f}
    /\ UNCHANGED <<phase, draining, files, run, texts, faults, history>>

\* Lingarr's own schedule and quota-topup are quiet in the dedupe's hour until :50.
Request(f) ==
    /\ phase = "open"
    /\ disk[f] # None
    /\ active' = active \union {f}
    /\ UNCHANGED <<phase, draining, files, run, texts, faults, history>>

Finish(f) ==
    /\ f \in active
    /\ active' = active \ {f} /\ draining' = draining \ {f}
    /\ UNCHANGED <<phase, files, run, texts, faults, history>>
-----------------------------------------------------------------------------
(* The clock.  What was active at the top of the hour is done at :45, and a *)
(* run has looked at Lingarr by :50.                                        *)

PauseBegins ==
    /\ phase = "open"
    /\ phase' = "pause" /\ draining' = active
    /\ UNCHANGED <<active, files, run, texts, faults, history>>

\* concurrencyPolicy Forbid: a run that is still at work is left to it.
SlotBegins ==
    /\ phase = "pause" /\ draining = {}
    /\ phase' = "slot"
    /\ run' = IF run.pc = "idle" THEN [Idle EXCEPT !.pc = "scan", !.scan = Files] ELSE run
    /\ UNCHANGED <<lingarr, files, texts, faults, history>>

PauseEnds ==
    /\ phase = "slot" /\ run.pc # "scan"
    /\ phase' = "open"
    /\ UNCHANGED <<lingarr, files, run, texts, faults, history>>
-----------------------------------------------------------------------------
(* A run of srt-dedupe.py.                                                  *)

Merged(c) == [c EXCEPT !.form = "merged"]

\* plan(): merging a merged file removes nothing, so it is left alone.
Plan(f) ==
    /\ run.pc = "scan" /\ f \in run.scan
    /\ run' = [run EXCEPT !.scan = @ \ {f},
                          !.todo[f] = IF disk[f] # None /\ disk[f].form = "dense"
                                      THEN Merged(disk[f]) ELSE None]
    /\ raced' = raced \ {f}
    /\ UNCHANGED <<phase, lingarr, files, texts, faults, first, spoiled>>

\* An OSError skips the file.
Unreadable(f) ==
    /\ run.pc = "scan" /\ f \in run.scan /\ faults < MaxFaults
    /\ run' = [run EXCEPT !.scan = @ \ {f}]
    /\ faults' = faults + 1
    /\ UNCHANGED <<phase, lingarr, files, texts, history>>

\* Lingarr is asked once, after the scan and before the first write.
AskLingarr ==
    /\ run.pc = "scan" /\ run.scan = {}
    /\ run' = IF Planned = {} \/ active # {} THEN Idle ELSE [run EXCEPT !.pc = "write"]
    /\ UNCHANGED <<phase, lingarr, files, texts, faults, history>>

\* MUTANT: every rewrite makes a new backup.
BackUpAlways(f) ==
    /\ run.pc = "write" /\ run.file = None /\ f \in Planned
    /\ IF disk[f] # None
       THEN backup' = [backup EXCEPT ![f] = disk[f]] /\ run' = [run EXCEPT !.file = f]
       ELSE backup' = backup /\ run' = Idle
    /\ UNCHANGED <<phase, lingarr, disk, texts, faults, history>>

\* A file without a backup is copied as it is now; one that is gone raises.
BackUp(f) ==
    /\ run.pc = "write" /\ run.file = None /\ f \in Planned
    /\ IF backup[f] # None
       THEN backup' = backup /\ run' = [run EXCEPT !.file = f]
       ELSE IF disk[f] # None
            THEN backup' = [backup EXCEPT ![f] = disk[f]] /\ run' = [run EXCEPT !.file = f]
            ELSE backup' = backup /\ run' = Idle
    /\ UNCHANGED <<phase, lingarr, disk, texts, faults, history>>

\* MUTANT: what is put in place is made from the copy in --backup-dir.
ReplaceFromBackup(f) ==
    /\ run.pc = "write" /\ run.file = f
    /\ disk' = [disk EXCEPT ![f] = IF backup[f] = Torn THEN run.todo[f] ELSE Merged(backup[f])]
    /\ first' = [first EXCEPT ![f] = IF @ = None THEN disk[f] ELSE @]
    /\ run' = [run EXCEPT !.file = None, !.todo[f] = None]
    /\ UNCHANGED <<phase, lingarr, backup, texts, faults, raced, spoiled>>

\* The temporary file is written, and os.replace puts it in place.
Replace(f) ==
    /\ run.pc = "write" /\ run.file = f
    /\ disk' = [disk EXCEPT ![f] = run.todo[f]]
    /\ first' = [first EXCEPT ![f] = IF @ = None THEN disk[f] ELSE @]
    /\ run' = [run EXCEPT !.file = None, !.todo[f] = None]
    /\ UNCHANGED <<phase, lingarr, backup, texts, faults, raced, spoiled>>

End ==
    /\ run.pc = "write" /\ Planned = {}
    /\ run' = Idle
    /\ UNCHANGED <<phase, lingarr, files, texts, faults, history>>

\* MUTANT: the subtitle is written in place, and may be cut short.
DieInPlace ==
    /\ run.pc # "idle" /\ faults < MaxFaults
    /\ faults' = faults + 1
    /\ run' = Idle
    /\ disk' = IF run.file = None THEN disk ELSE [disk EXCEPT ![run.file] = Torn]
    /\ UNCHANGED <<phase, lingarr, backup, texts, history>>

\* The pod is killed, or Lingarr does not answer, or the disk fails a write.  A copy
\* under way is cut short; a temporary file that is left behind is no *.srt.
Die ==
    /\ run.pc # "idle" /\ faults < MaxFaults
    /\ faults' = faults + 1
    /\ run' = Idle
    /\ \/ UNCHANGED <<backup, spoiled>>
       \/ \E f \in Planned :
             /\ run.pc = "write" /\ run.file = None
             /\ backup[f] = None /\ disk[f] # None
             /\ backup' = [backup EXCEPT ![f] = Torn]
             /\ spoiled' = spoiled \union {f}
    /\ UNCHANGED <<phase, lingarr, disk, texts, first, raced>>

FileStep == \E f \in Files : Plan(f) \/ BackUp(f) \/ Replace(f)
Dedupe == FileStep \/ AskLingarr \/ End
Clock == PauseBegins \/ SlotBegins \/ PauseEnds
Translation == \E f \in Files : Finish(f)
Requests == \E f \in Files : Request(f)
Calm == Dedupe \/ Clock \/ Translation \/ Requests
Disturbance == Die \/ \E f \in Files : Unreadable(f) \/ Download(f) \/ Delete(f)

Next == Calm \/ Disturbance

Spec == Init /\ [][Next]_vars
FairSpec == Spec /\ WF_vars(Dedupe) /\ WF_vars(Clock) /\ \A f \in Files : WF_vars(Finish(f))
-----------------------------------------------------------------------------
(* Properties.                                                              *)

RunState ==
    [pc : {"idle", "scan", "write"}, scan : SUBSET Files,
     todo : [Files -> Subtitle \union {None}], file : Files \union {None}]

TypeOK ==
    /\ phase \in {"open", "pause", "slot"}
    /\ active \subseteq Files /\ draining \subseteq active
    /\ disk \in [Files -> Subtitle \union {None}]
    /\ backup \in [Files -> Subtitle \union {None, Torn}]
    /\ run \in RunState
    /\ run.file # None => run.file \in Planned
    /\ texts \in Nat /\ faults \in Nat
    /\ first \in [Files -> Subtitle \union {None}]
    /\ raced \subseteq Files /\ spoiled \subseteq Files

\* A rewrite keeps the text of the file it replaces, unless somebody else changed the
\* file after it was read (srt-dedupe.py:8, 132-157).
TextsSurvive ==
    [][Dedupe => \A f \in Files : disk'[f] # disk[f] =>
            f \in raced \/ (disk[f] # None /\ disk'[f] = Merged(disk[f]))]_vars

\* What the first rewrite of a file replaced is in --backup-dir, for good, unless the
\* copy was cut short or is of an older file (srt-dedupe.py:14-15, 149-157).
OriginalKept == \A f \in Files : first[f] # None /\ f \notin spoiled => backup[f] = first[f]

\* Lingarr's requests cannot starve the dedupe: once others leave the files alone, no
\* dense file is left (quota-topup.py:32-36, 97-99, srt-dedupe.py:144-147).
Collapses ==
    <>[][Calm]_vars => <>[](\A f \in Files : disk[f] # None => disk[f].form # "dense")

\* Nothing is written while Lingarr has a translation (srt-dedupe.py:16).
NothingWrittenWhileBusy == [][\A f \in Files : Replace(f) => active = {}]_vars
=============================================================================
