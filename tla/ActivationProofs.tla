-------------------------- MODULE ActivationProofs --------------------------
(***************************************************************************)
(* Activation implements CoreSlot, for any intents, versions, goals and    *)
(* number of faults, as long as an empty journal gets its backups          *)
(* (BackupsAtomic): what recovery would restore changes from one whole     *)
(* release to another in one step.  And CoreSafe: after a pass, whatever    *)
(* failed, the service is the one that recovery would choose, and what is  *)
(* reported is committed and runs.                                         *)
(***************************************************************************)
EXTENDS Activation, TLAPS

-----------------------------------------------------------------------------
(* The absent value is neither a journal, nor a retired one, nor a job, nor the
   state of a service, nor an outcome or a mark. *)
JournalFields == {"phase", "old", "policy", "retained", "saved", "units"}
NoneIsNoRecord ==
  /\ DOMAIN None \notin {JournalFields, {"j", "synced"}, {"version", "pc", "err"},
                         {"bin", "config", "boot"}, {"active", "enabled"}}
  /\ None \notin {"kept", "pending"}

(* Copies of some of the files, and of all of them. *)
IsBackup(s) ==
  /\ DOMAIN s \subseteq Files /\ s = [f \in DOMAIN s |-> s[f]]
  /\ \A f \in DOMAIN s : s[f] \in Content(f)

IsImage(d) == IsBackup(d) /\ DOMAIN d = Files

(* A release that may be committed. *)
Good(c) == IsImage(c) /\ c.activate = None /\ Slot!Whole(c)

JournalOK(j) ==
  /\ DOMAIN j = JournalFields
  /\ j.phase \in Phases /\ IsBackup(j.saved)
  /\ j.phase \notin Unfinished => DOMAIN j.saved \subseteq InstallFiles
  /\ j.phase \in Unfinished => ApplyFiles \cup {"config", "unit"} \subseteq DOMAIN j.saved

PassFields == {"pc", "intent", "version", "changed", "outcome", "stop", "rp", "next", "tries",
               "ok", "known"}

PassOK ==
  /\ DOMAIN act = PassFields
  /\ act.pc # "idle" => act.intent \in Intents /\ act.version \in Versions
  /\ act.pc = "admit" => act.outcome \in {"new", "kept", "failed"}

SlotOK == slot # None => DOMAIN slot = {"version", "pc", "err"} /\ slot.version \in Versions

FilesOK ==
  /\ IsImage(disk) /\ goal \in Goals
  /\ journal # None => JournalOK(journal)
  /\ done # None => /\ DOMAIN done = {"j", "synced"} /\ JournalOK(done.j)
                    /\ done.j # None /\ done.synced \in BOOLEAN

(* A retirement that is under way has whole files beneath it. *)
Retiring ==
  /\ done # None => journal = None /\ Good(disk)
  /\ act.pc = "sync" => done # None /\ ~done.synced
  /\ done # None /\ ~done.synced /\ Incomplete(done.j) => act.pc = "sync"

(* The worker alone writes while it holds the lock. *)
Working ==
  WorkerHoldsLock =>
    /\ act.pc = "idle" /\ journal # None /\ journal.phase = "installing"
    /\ slot.pc \in {"saving", "mark", "binary", "receipt", "staged", "undo"}
    /\ IF slot.pc = "saving" THEN DOMAIN journal.saved = {}
       ELSE InstallFiles \subseteq DOMAIN journal.saved

(* A journal without its backups is about to get them, or to be rolled back. *)
Backed ==
  Incomplete(journal) =>
    /\ DOMAIN journal.saved = {}
    /\ \/ slot # None /\ slot.pc = "saving"
       \/ act.pc \in {"snapmeta", "fail"}
       \/ act.pc \in {"rbStop", "rbFiles", "retire"} /\ act.next = "decide"

(* What the pass has made sure of at each of its steps. *)
Ends == {"recorded", "start", "applyFailed", "decide", "undone"}

Rolling ==
  /\ act.pc \in {"rbStop", "rbFiles"} => journal # None /\ act.next \in Ends
  /\ act.pc = "retire" => journal # None /\ act.next \in Ends \cup {"committed"}
  /\ act.pc = "sync" => act.next \in Ends \cup {"committed"}
  /\ act.pc = "retire" /\ act.next # "committed" => Unrestored = {}

Rewriting == act.pc \in {"preflight", "stop", "config", "unit", "restart", "check", "disable"}

Retired == act.pc = "retire" /\ act.next = "committed"

Committing ==
  \/ act.pc \in {"policy", "retained", "complete"}
  \/ act.pc = "admit" /\ act.outcome = "new"
  \/ Retired

Starting ==
  /\ act.pc \in {"snapmeta", "snapshot"} => journal # None /\ journal.phase \notin Unfinished
  /\ act.pc = "snapmeta" => DOMAIN journal.saved = {}
  /\ Rewriting \/ Committing =>
       /\ journal # None /\ journal.phase \in Unfinished
       /\ journal.retained = act.intent /\ journal.policy = Policy

Bound == disk.unit = disk.config /\ (disk.unit # None => disk.bin # None)

Written ==
  /\ act.pc \in {"preflight", "stop", "disable", "check"} \/ Committing => Bound
  /\ act.pc \in {"config", "unit", "restart", "check"} => Live
  /\ act.pc = "disable" => ~Live
  /\ act.pc \in {"unit", "restart", "check"} => disk.config = act.intent
  /\ act.pc \in {"restart", "check"} => disk.unit = act.intent
  /\ Committing /\ Live => disk.config = act.intent
  /\ act.pc \in {"retained", "complete"} \/ Retired => disk.policy = Policy
  /\ act.pc = "complete" \/ Retired => disk.retained = act.intent
  /\ Retired => disk.activate = None

Control == PassOK /\ SlotOK /\ Retiring /\ Working /\ Backed /\ Rolling /\ Starting /\ Written

(* The inductive invariant. *)
ReleaseInv ==
  Control /\ FilesOK /\ Good(Recovered) /\ (Recovered.bin # None => disk.bin # None)

-----------------------------------------------------------------------------
(* Files over files. *)
LEMMA OverImage ==
  ASSUME NEW s, IsBackup(s), NEW d, IsImage(d)
  PROVE  /\ IsImage(Over(s, d))
         /\ \A f \in Files : Over(s, d)[f] = IF f \in DOMAIN s THEN s[f] ELSE d[f]
  BY DEF IsImage, IsBackup, Over

LEMMA OverSame ==
  ASSUME NEW s, IsBackup(s), NEW d, IsImage(d), NEW e, IsImage(e),
         \A f \in Files \ DOMAIN s : e[f] = d[f]
  PROVE  Over(s, e) = Over(s, d)
  BY DEF IsImage, IsBackup, Over

LEMMA OverSaved ==
  ASSUME NEW s, IsBackup(s), NEW d, IsImage(d), NEW fs, fs \subseteq Files,
         NEW t, t = Over(s, [f \in fs |-> d[f]])
  PROVE  IsBackup(t) /\ DOMAIN t = DOMAIN s \cup fs /\ Over(t, d) = Over(s, d)
<1>1. DOMAIN t = DOMAIN s \cup fs /\ DOMAIN t \subseteq Files
  BY DEF Over, IsBackup
<1>2. \A f \in DOMAIN t : t[f] = IF f \in DOMAIN s THEN s[f] ELSE d[f]
  BY <1>1 DEF Over
<1>3. IsBackup(t)
  BY <1>1, <1>2 DEF IsBackup, IsImage, Over
<1>4. Over(t, d) = Over(s, d)
  BY <1>1, <1>2 DEF Over, IsImage, IsBackup
<1> QED  BY <1>1, <1>3, <1>4

LEMMA OverEmpty ==
  ASSUME NEW s, DOMAIN s = {}, NEW d, IsImage(d)
  PROVE  Over(s, d) = d
  BY DEF IsImage, IsBackup, Over

LEMMA OverRestored ==
  ASSUME NEW s, IsBackup(s), NEW d, IsImage(d), \A f \in DOMAIN s : d[f] = s[f]
  PROVE  Over(s, d) = d
  BY DEF IsImage, IsBackup, Over

LEMMA WriteFile ==
  ASSUME NEW d, IsImage(d), NEW f \in Files, NEW v \in Content(f)
  PROVE  /\ IsImage([d EXCEPT ![f] = v]) /\ [d EXCEPT ![f] = v][f] = v
         /\ \A g \in Files \ {f} : [d EXCEPT ![f] = v][g] = d[g]
  BY DEF IsImage, IsBackup

LEMMA Contents ==
  /\ \A i \in Intents : i \in Content("retained") /\ i \in Content("config") /\ i \in Content("unit")
                        /\ PolicyOf[i] \in Content("policy")
  /\ \A v \in Versions : v \in Content("bin") /\ v \in Content("trusted")
  /\ None \in Content("activate") /\ "pending" \in Content("activate")
  BY DEF Content, Policies

LEMMA GoodRelease == ASSUME NEW c, Good(c) PROVE c \in Slot!Release /\ Slot!Whole(c)
<1>1. DOMAIN c = {"bin", "trusted", "activate", "policy", "retained", "config", "unit"}
      /\ c = [f \in DOMAIN c |-> c[f]]
  BY DEF Good, IsImage, IsBackup, Files, InstallFiles
<1>2. /\ c.bin \in Versions \cup {None} /\ c.trusted \in Versions \cup {None}
      /\ c.policy \in Policies \cup {None} /\ c.retained \in Intents \cup {None}
      /\ c.config \in Intents \cup {None} /\ c.unit \in Intents \cup {None}
  BY <1>1 DEF Good, IsImage, IsBackup, Content
<1>3. c.activate = None
  BY DEF Good
<1>4. c \in Slot!Release
  BY <1>1, <1>2, <1>3 DEF Slot!Release, Policies
<1> QED  BY <1>4 DEF Good

-----------------------------------------------------------------------------
USE DEF actVars, hostVars

(* Steps that touch neither files nor journal. *)
LEMMA Untouched ==
  ASSUME ReleaseInv, Control', UNCHANGED <<disk, journal, done>>, goal' \in Goals
  PROVE  ReleaseInv' /\ Recovered' = Recovered
<1>1. Recovered' = Recovered
  BY DEF Recovered
<1>2. FilesOK'
  BY DEF ReleaseInv, FilesOK
<1> QED  BY <1>1, <1>2 DEF ReleaseInv

(* The steps between two passes. *)
LEMMA IdleSteps ==
  ASSUME ReleaseInv, Converge \/ Refuse \/ \E g \in Goals : Want(g)
  PROVE  ReleaseInv' /\ Recovered' = Recovered
<1>1. Control /\ DOMAIN act = PassFields /\ act.pc = "idle" /\ goal \in Goals
  BY DEF ReleaseInv, Control, PassOK, FilesOK, Converge, Refuse, Want
<1>2. UNCHANGED <<disk, journal, done, slot>> /\ goal' \in Goals
  BY <1>1 DEF Converge, Refuse, Want
<1>3. CASE \E g \in Goals : Want(g)
  <2>1. act' = act
    BY <1>3 DEF Want
  <2>2. Control'
    BY <1>1, <1>2, <2>1 DEF Control, PassOK, SlotOK, Retiring, Working, Backed, Rolling, Starting,
       Written, WorkerHoldsLock, Incomplete, Unrestored, Rewriting, Retired, Committing, Bound, Live, Policy
  <2> QED  BY <1>2, <2>2, Untouched
<1>4. CASE Converge \/ Refuse
  <2>1. /\ DOMAIN act' = PassFields /\ act'.pc \in {"recover", "apply", "undo"}
        /\ act'.intent = goal.intent /\ act'.version = goal.version
        /\ ~WorkerHoldsLock
    BY <1>1, <1>4 DEF Converge, Refuse, PassFields
  <2>2. PassOK' /\ SlotOK'
    BY <1>1, <1>2, <2>1 DEF Control, PassOK, SlotOK, Goals
  <2>3. Retiring' /\ Working' /\ Backed'
    BY <1>1, <1>2, <2>1 DEF Control, Retiring, Working, Backed, WorkerHoldsLock, Incomplete
  <2>4. Rolling' /\ Starting' /\ Written'
    BY <1>2, <2>1 DEF Rolling, Starting, Written, Rewriting, Retired, Committing
  <2> QED  BY <1>2, <2>2, <2>3, <2>4, Untouched DEF Control
<1> QED  BY <1>3, <1>4

-----------------------------------------------------------------------------
(* While the pass runs, the worker waits, and a journal has its backups except
   where Backed says so. *)
LEMMA Locked ==
  ASSUME Control, act.pc # "idle"
  PROVE  /\ ~WorkerHoldsLock /\ (slot # None => slot.pc # "saving")
         /\ act.pc \notin {"snapmeta", "fail", "rbStop", "rbFiles", "retire"} => ~Incomplete(journal)
         /\ act.pc # "sync" /\ done # None /\ ~done.synced => ~Incomplete(done.j)
  BY DEF Control, Working, WorkerHoldsLock, Backed, Retiring

(* A step of the pass that leaves the files alone. *)
LEMMA PassStep ==
  ASSUME ReleaseInv, act.pc \notin {"idle", "sync"}, act'.pc # "sync",
         UNCHANGED <<disk, journal, done, slot, goal>>,
         DOMAIN act' = PassFields, act'.intent = act.intent, act'.version = act.version,
         act'.pc = "admit" => act'.outcome \in {"new", "kept", "failed"},
         Backed', Rolling', Starting', Written'
  PROVE  ReleaseInv' /\ Recovered' = Recovered
<1>1. Control /\ goal' \in Goals
  BY DEF ReleaseInv, FilesOK
<1>2. PassOK' /\ SlotOK'
  BY <1>1 DEF Control, PassOK, SlotOK
<1>3. Retiring' /\ Working'
  BY <1>1, Locked DEF Control, Retiring, Working, WorkerHoldsLock, Incomplete
<1> QED  BY <1>1, <1>2, <1>3, Untouched DEF Control

QuietSteps == {"idle", "recover", "recorded", "start", "installFailed", "apply", "applyFailed",
               "decide", "undo", "undone", "committed", "receipt"}

Quiet == act.pc \in QuietSteps \/ (act.pc = "admit" /\ act.outcome # "new")

(* Where nothing is known but the invariant of the files. *)
LEMMA QuietStep ==
  ASSUME Quiet', ~Incomplete(journal), UNCHANGED journal
  PROVE  Backed' /\ Rolling' /\ Starting' /\ Written'
<1>1. Backed'
  BY DEF Backed, Incomplete
<1>2. act'.pc \notin {"rbStop", "rbFiles", "retire", "sync", "snapmeta", "snapshot", "preflight",
                     "stop", "config", "unit", "restart", "check", "disable", "policy",
                     "retained", "complete"}
      /\ ~(act'.pc = "admit" /\ act'.outcome = "new")
  BY DEF Quiet, QuietSteps
<1>3. ~Rewriting' /\ ~Committing' /\ ~Retired'
  BY <1>2 DEF Rewriting, Committing, Retired
<1> QED  BY <1>1, <1>2, <1>3 DEF Rolling, Starting, Written

(* The fields of a pass that a step does not name. *)
LEMMA Moves ==
  ASSUME DOMAIN act = PassFields, NEW p, Go(p)
  PROVE  /\ DOMAIN act' = PassFields /\ act'.pc = p
         /\ act'.intent = act.intent /\ act'.version = act.version
         /\ act'.outcome = act.outcome /\ act'.next = act.next
  BY DEF Go, PassFields

LEMMA RollsBack ==
  ASSUME ReleaseInv, act.pc \notin {"idle", "sync", "snapmeta"}, journal # None,
         UNCHANGED <<disk, journal, done, slot, goal>>,
         NEW rp, NEW next \in Ends, Rollback(rp, next),
         Incomplete(journal) => next = "decide"
  PROVE  ReleaseInv' /\ Recovered' = Recovered
<1>1. Control /\ DOMAIN act = PassFields
  BY DEF ReleaseInv, Control, PassOK
<1>2. /\ DOMAIN act' = PassFields /\ act'.pc = "rbStop" /\ act'.next = next
      /\ act'.intent = act.intent /\ act'.version = act.version
  BY <1>1 DEF Rollback, PassFields
<1>3. Backed'
  BY <1>1, <1>2, Locked DEF Control, Backed, Incomplete
<1>4. Rolling' /\ Starting' /\ Written'
  BY <1>2 DEF Rolling, Starting, Written, Rewriting, Committing, Retired
<1> QED  BY <1>2, <1>3, <1>4, PassStep

(* The steps of the pass between installation, activation and rollback. *)
LEMMA PassSteps ==
  ASSUME ReleaseInv,
         \/ InstallFailed \/ Decide \/ IngressFails \/ GuardFails \/ CommitFails
         \/ Committed \/ Undone \/ Receipt
  PROVE  ReleaseInv' /\ Recovered' = Recovered
<1>1. Control /\ DOMAIN act = PassFields
  BY DEF ReleaseInv, Control, PassOK
<1>2. UNCHANGED <<disk, journal, done, slot, goal>>
  BY DEF InstallFailed, Decide, IngressFails, GuardFails, CommitFails, Committed, Undone, Receipt
<1>3. act.pc \in {"installFailed", "decide", "admit", "policy", "retained", "complete", "committed",
                 "undone", "receipt"}
  BY DEF InstallFailed, Decide, IngressFails, GuardFails, CommitFails, Committed, Undone, Receipt
<1>4. /\ DOMAIN act' = PassFields /\ act'.intent = act.intent /\ act'.version = act.version
      /\ \/ act'.pc = "admit" /\ act'.outcome \in {"kept", "failed"}
         \/ act'.pc \in {"undo", "receipt", "idle"}
  BY <1>1 DEF InstallFailed, Decide, IngressFails, GuardFails, CommitFails, Committed, Undone, Receipt,
     Go, PassFields
<1>5. Quiet' /\ ~Incomplete(journal)
  BY <1>1, <1>3, <1>4, Locked DEF Quiet, QuietSteps
<1>6. Backed' /\ Rolling' /\ Starting' /\ Written'
  BY <1>2, <1>5, QuietStep
<1> QED  BY <1>2, <1>3, <1>4, <1>6, PassStep

LEMMA InstallSteps ==
  ASSUME ReleaseInv, Recorded \/ Start
  PROVE  ReleaseInv' /\ Recovered' = Recovered
<1>1. Control /\ DOMAIN act = PassFields /\ goal \in Goals
  BY DEF ReleaseInv, Control, PassOK, FilesOK
<1>2. UNCHANGED <<disk, journal, done, goal>>
  BY DEF Recorded, Start
<1>3. act.pc \in {"recorded", "start"} /\ ~Incomplete(journal) /\ ~WorkerHoldsLock
      /\ (done # None /\ ~done.synced => ~Incomplete(done.j))
  BY <1>1, Locked DEF Recorded, Start
<1>4. CASE Recorded
  <2>1. slot' = slot
    BY <1>4 DEF Recorded
  <2>2. CASE Go("installFailed") \/ Go("apply") \/ Go("start")
    <3>1. /\ DOMAIN act' = PassFields /\ act'.intent = act.intent /\ act'.version = act.version
          /\ act'.pc \in {"installFailed", "apply", "start"}
      BY <1>1, <2>2, Moves
    <3>2. Backed' /\ Rolling' /\ Starting' /\ Written'
      BY <1>2, <1>3, <3>1, QuietStep DEF Quiet, QuietSteps
    <3> QED  BY <1>2, <1>3, <2>1, <3>1, <3>2, PassStep
  <2>3. CASE journal # None /\ Rollback(journal.old, "start")
    BY <1>2, <1>3, <2>1, <2>3, RollsBack DEF Ends
  <2> QED  BY <1>4, <2>2, <2>3 DEF Recorded
<1>5. CASE Start
  <2>1. /\ DOMAIN act' = PassFields /\ act'.intent = act.intent /\ act'.version = act.version
        /\ act'.pc \in {"installFailed", "apply"}
    BY <1>1, <1>5 DEF Start, Go, PassFields
  <2>2. slot' = slot \/ slot' = None \/ slot' = NewJob
    BY <1>5 DEF Start
  <2>3. SlotOK' /\ ~WorkerHoldsLock'
    BY <1>1, <1>3, <2>2 DEF Control, SlotOK, PassOK, WorkerHoldsLock, NewJob
  <2>4. PassOK'
    BY <1>1, <1>3, <2>1 DEF Control, PassOK
  <2>5. Retiring' /\ Working'
    BY <1>1, <1>2, <1>3, <2>1, <2>3 DEF Control, Retiring, Working, Incomplete
  <2>6. Backed' /\ Rolling' /\ Starting' /\ Written'
    BY <1>2, <1>3, <2>1, QuietStep DEF Quiet, QuietSteps
  <2> QED  BY <1>1, <1>2, <2>3, <2>4, <2>5, <2>6, Untouched DEF Control
<1> QED  BY <1>4, <1>5

(* The steps of an activation that touch the service alone, and its errors. *)
LEMMA ServiceSteps ==
  ASSUME ReleaseInv, StopOld \/ EnableRestart \/ StepFails \/ ApplyFailed \/ Admit \/ Undo
  PROVE  ReleaseInv' /\ Recovered' = Recovered
<1>1. Control /\ DOMAIN act = PassFields
  BY DEF ReleaseInv, Control, PassOK
<1>2. UNCHANGED <<disk, journal, done, slot, goal>>
  BY DEF StopOld, EnableRestart, StepFails, ApplyFailed, Admit, Undo
<1>3. act.pc \notin {"idle", "sync"}
  BY DEF StopOld, EnableRestart, StepFails, ApplyFailed, Admit, Undo, ApplySteps
<1>4. CASE StepFails \/ (EnableRestart /\ Go("fail"))
  <2>1. /\ DOMAIN act' = PassFields /\ act'.intent = act.intent /\ act'.version = act.version
        /\ act'.pc = "fail"
    BY <1>1, <1>4, Moves DEF StepFails
  <2>2. act.pc \in ApplySteps
    BY <1>4 DEF StepFails, EnableRestart, ApplySteps
  <2>3. Incomplete(journal) => DOMAIN journal.saved = {}
    BY <1>1 DEF Control, Backed
  <2>4. Backed'
    BY <1>2, <2>1, <2>3 DEF Backed, Incomplete
  <2>5. Rolling' /\ Starting' /\ Written'
    BY <2>1 DEF Rolling, Starting, Written, Rewriting, Committing, Retired
  <2> QED  BY <1>2, <1>3, <2>1, <2>4, <2>5, PassStep
<1>5. CASE StopOld
  <2>1. /\ DOMAIN act' = PassFields /\ act'.intent = act.intent /\ act'.version = act.version
        /\ act'.pc = IF Live THEN "config" ELSE "disable"
    BY <1>1, <1>5, Moves DEF StopOld
  <2>2. act.pc = "stop" /\ ~Incomplete(journal)
    BY <1>1, <1>5, Locked DEF StopOld
  <2>3. Backed' /\ Rolling'
    BY <1>2, <2>1, <2>2 DEF Backed, Rolling, Incomplete
  <2>4. Starting'
    BY <1>1, <1>2, <2>1, <2>2 DEF Control, Starting, Rewriting, Committing, Retired, Policy
  <2>5. Written'
    BY <1>1, <1>2, <2>1, <2>2 DEF Control, Written, Committing, Retired, Bound, Live
  <2> QED  BY <1>2, <2>1, <2>2, <2>3, <2>4, <2>5, PassStep
<1>6. CASE EnableRestart /\ ~NoBinary
  <2>1. /\ DOMAIN act' = PassFields /\ act'.intent = act.intent /\ act'.version = act.version
        /\ act'.pc = "check"
    BY <1>1, <1>6, Moves DEF EnableRestart
  <2>2. act.pc = "restart" /\ ~Incomplete(journal) /\ disk.bin # None
    BY <1>1, <1>6, Locked DEF EnableRestart, NoBinary
  <2>3. Backed' /\ Rolling'
    BY <1>2, <2>1, <2>2 DEF Backed, Rolling, Incomplete
  <2>4. Starting'
    BY <1>1, <1>2, <2>1, <2>2 DEF Control, Starting, Rewriting, Committing, Retired, Policy
  <2>5. Written'
    BY <1>1, <1>2, <2>1, <2>2 DEF Control, Written, Committing, Retired, Bound, Live
  <2> QED  BY <1>2, <2>1, <2>2, <2>3, <2>4, <2>5, PassStep
<1>7. CASE ApplyFailed /\ journal # None
  <2>1. Rollback(Policy, "decide") /\ act.pc \in {"fail", "applyFailed"}
    BY <1>7 DEF ApplyFailed
  <2> QED  BY <1>2, <1>7, <2>1, RollsBack DEF Ends
<1>8. CASE Undo /\ journal # None
  <2>1. Rollback(journal.policy, "undone") /\ act.pc = "undo" /\ ~Incomplete(journal)
    BY <1>1, <1>8, Locked DEF Undo
  <2> QED  BY <1>2, <1>8, <2>1, RollsBack DEF Ends
<1>9. CASE (ApplyFailed \/ Undo) /\ journal = None
  <2>1. /\ DOMAIN act' = PassFields /\ act'.intent = act.intent /\ act'.version = act.version
        /\ act'.pc \in {"decide", "undone"}
    BY <1>1, <1>9 DEF ApplyFailed, Undo, Go, PassFields
  <2>2. Backed' /\ Rolling' /\ Starting' /\ Written'
    BY <1>2, <1>9, <2>1, QuietStep DEF Quiet, QuietSteps, Incomplete
  <2> QED  BY <1>2, <1>3, <2>1, <2>2, PassStep
<1>10. CASE Admit
  <2>1. /\ DOMAIN act' = PassFields /\ act'.intent = act.intent /\ act'.version = act.version
        /\ act.pc = "admit" /\ ~Incomplete(journal)
    BY <1>1, <1>10, Moves, Locked DEF Admit
  <2>2. act.outcome \in {"new", "kept", "failed"}
    BY <1>1, <2>1 DEF Control, PassOK
  <2>3. CASE act.outcome = "new"
    <3>1. act'.pc = "policy"
      BY <1>1, <1>10, <2>3, Moves DEF Admit
    <3>2. Backed' /\ Rolling'
      BY <1>2, <2>1, <3>1 DEF Backed, Rolling, Incomplete
    <3>3. Committing /\ Starting /\ Written
      BY <1>1, <2>1, <2>3 DEF Control, Committing
    <3>4. Starting'
      BY <1>2, <2>1, <3>1, <3>3 DEF Starting, Rewriting, Committing, Retired, Policy
    <3>5. Written'
      BY <1>2, <2>1, <3>1, <3>3 DEF Written, Committing, Retired, Bound, Live
    <3> QED  BY <1>2, <1>3, <2>1, <3>1, <3>2, <3>4, <3>5, PassStep
  <2>4. CASE act.outcome # "new"
    <3>1. act'.pc \in {"idle", "undo"}
      BY <1>1, <1>10, <2>2, <2>4, Moves DEF Admit
    <3>2. Backed' /\ Rolling' /\ Starting' /\ Written'
      BY <1>2, <2>1, <3>1, QuietStep DEF Quiet, QuietSteps
    <3> QED  BY <1>2, <1>3, <2>1, <3>1, <3>2, PassStep
  <2> QED  BY <2>3, <2>4
<1>11. EnableRestart => Go("fail") \/ ~NoBinary
  BY DEF EnableRestart
<1> QED  BY <1>4, <1>5, <1>6, <1>7, <1>8, <1>9, <1>10, <1>11

(* The steps of a rollback beside its writes, and deaths. *)
LEMMA RollbackSteps ==
  ASSUME ReleaseInv, RollbackStop \/ RollbackStart
  PROVE  ReleaseInv' /\ Recovered' = Recovered
<1>1. Control /\ DOMAIN act = PassFields
  BY DEF ReleaseInv, Control, PassOK
<1>2. UNCHANGED <<disk, journal, done, slot, goal>>
  BY DEF RollbackStop, RollbackStart
<1>3. /\ act.pc \in {"rbStop", "rbFiles"} /\ act.next \in Ends /\ journal # None
      /\ DOMAIN act' = PassFields /\ act'.intent = act.intent /\ act'.version = act.version
      /\ act'.next = act.next
      /\ act'.pc = "rbFiles" \/ (act'.pc = "retire" /\ Unrestored = {})
  BY <1>1, Moves DEF RollbackStop, RollbackStart, Control, Rolling
<1>4. act.next # "committed"
  BY <1>3 DEF Ends
<1>5. slot # None => slot.pc # "saving"
  BY <1>1, <1>3, Locked
<1>6. Backed'
  BY <1>1, <1>2, <1>3, <1>5 DEF Control, Backed, Incomplete
<1>7. Rolling'
  BY <1>2, <1>3 DEF Rolling, Unrestored
<1>8. Starting' /\ Written'
  BY <1>3, <1>4 DEF Starting, Written, Rewriting, Committing, Retired
<1> QED  BY <1>2, <1>3, <1>6, <1>7, <1>8, PassStep

LEMMA RollbackStopsEarly ==
  ASSUME BackupsAtomic, ReleaseInv, RollbackFails
  PROVE  ReleaseInv' /\ Recovered' = Recovered
<1>1. Control /\ DOMAIN act = PassFields
  BY DEF ReleaseInv, Control, PassOK
<1>2. UNCHANGED <<disk, journal, done, slot, goal>> /\ ~Incomplete(journal)
  BY DEF RollbackFails, MayDie
<1>3. /\ act.pc \in {"rbStop", "rbFiles", "retire"} /\ act.next \in Ends \cup {"committed"}
      /\ DOMAIN act' = PassFields /\ act'.intent = act.intent /\ act'.version = act.version
      /\ act'.pc = act.next
  BY <1>1 DEF RollbackFails, Control, Rolling, PassFields
<1>4. Backed' /\ Rolling' /\ Starting' /\ Written'
  BY <1>2, <1>3, QuietStep DEF Quiet, QuietSteps, Ends
<1>5. act'.pc # "sync" /\ act'.pc # "admit"
  BY <1>3 DEF Ends
<1> QED  BY <1>2, <1>3, <1>4, <1>5, PassStep

(* The worker gives up or is killed, or the agent dies. *)
LEMMA Deaths ==
  ASSUME BackupsAtomic, ReleaseInv, WorkerFails \/ WorkerKilled \/ Crash
  PROVE  ReleaseInv' /\ Recovered' = Recovered
<1>1. Control /\ goal \in Goals
  BY DEF ReleaseInv, FilesOK
<1>2. UNCHANGED <<disk, journal, done, goal>>
  BY DEF WorkerFails, WorkerKilled, Crash
<1>3. CASE WorkerFails
  <2>1. /\ act' = act /\ slot # None /\ DOMAIN slot = {"version", "pc", "err"}
        /\ slot.pc \in {"mark", "binary", "receipt", "staged"} /\ slot.version \in Versions
        /\ slot' = [slot EXCEPT !.pc = "undo"]
    BY <1>1, <1>3 DEF WorkerFails, WorkerGo, Control, SlotOK
  <2>2. WorkerHoldsLock /\ act.pc = "idle" /\ ~Incomplete(journal)
    BY <1>1, <2>1 DEF WorkerHoldsLock, Control, Working, Incomplete, ApplyFiles, InstallFiles
  <2>3. PassOK' /\ SlotOK'
    BY <1>1, <2>1 DEF Control, PassOK, SlotOK
  <2>4. slot'.pc = "undo"
    BY <2>1
  <2>5. Working'
    BY <1>1, <1>2, <2>1, <2>2, <2>4 DEF Control, Working
  <2>6. Retiring'
    BY <1>1, <1>2, <2>1 DEF Control, Retiring, Incomplete
  <2>7. Backed' /\ Rolling' /\ Starting' /\ Written'
    BY <1>2, <2>1, <2>2, QuietStep DEF Quiet, QuietSteps
  <2> QED  BY <1>1, <1>2, <2>3, <2>5, <2>6, <2>7, Untouched DEF Control
<1>4. CASE WorkerKilled
  <2>1. /\ act' = act /\ slot # None /\ DOMAIN slot = {"version", "pc", "err"}
        /\ slot.version \in Versions /\ slot' = [slot EXCEPT !.pc = "finished", !.err = TRUE]
        /\ ~Incomplete(journal)
    BY <1>1, <1>4 DEF WorkerKilled, WorkerEnds, Control, SlotOK, MayDie
  <2>2. PassOK' /\ SlotOK' /\ ~WorkerHoldsLock'
    BY <1>1, <2>1 DEF Control, PassOK, SlotOK, WorkerHoldsLock
  <2>3. Retiring' /\ Working'
    BY <1>1, <1>2, <2>1, <2>2 DEF Control, Retiring, Working, Incomplete
  <2>4. Backed'
    BY <1>2, <2>1 DEF Backed, Incomplete
  <2>5. Rolling' /\ Starting' /\ Written'
    BY <1>1, <1>2, <2>1 DEF Control, Rolling, Starting, Written, Unrestored, Rewriting, Committing,
       Retired, Bound, Live, Policy
  <2> QED  BY <1>1, <1>2, <2>2, <2>3, <2>4, <2>5, Untouched DEF Control
<1>5. CASE Crash
  <2>1. act'.pc = "idle" /\ DOMAIN act' = PassFields /\ slot' = None /\ ~Incomplete(journal)
        /\ (done # None => done.synced \/ ~Incomplete(done.j))
    BY <1>5 DEF Crash, IdlePass, PassFields, MayDie
  <2>2. PassOK' /\ SlotOK' /\ ~WorkerHoldsLock'
    BY <2>1 DEF PassOK, SlotOK, WorkerHoldsLock
  <2>3. Retiring' /\ Working'
    BY <1>1, <1>2, <2>1, <2>2 DEF Control, Retiring, Working, Incomplete
  <2>4. Backed' /\ Rolling' /\ Starting' /\ Written'
    BY <1>2, <2>1, QuietStep DEF Quiet, QuietSteps
  <2> QED  BY <1>1, <1>2, <2>2, <2>3, <2>4, Untouched DEF Control
<1> QED  BY <1>3, <1>4, <1>5

(* The retired journal comes back: it was still the one that recovery would
   use. *)
LEMMA JournalReturns ==
  ASSUME ReleaseInv, done # None, ~done.synced, ~Incomplete(done.j),
         journal' = done.j, done' = None, UNCHANGED <<disk, goal>>,
         PassOK', SlotOK', ~WorkerHoldsLock', Quiet'
  PROVE  ReleaseInv' /\ Recovered' = Recovered
<1>1. Control /\ FilesOK /\ journal = None /\ done.j # None /\ JournalOK(done.j)
  BY DEF ReleaseInv, Control, Retiring, FilesOK
<1>2. Recovered' = Recovered
  BY <1>1 DEF Recovered
<1>3. FilesOK'
  BY <1>1 DEF FilesOK
<1>4. act'.pc \notin {"rbStop", "rbFiles", "retire", "sync", "snapmeta", "snapshot", "preflight",
                     "stop", "config", "unit", "restart", "check", "disable", "policy",
                     "retained", "complete"}
      /\ ~(act'.pc = "admit" /\ act'.outcome = "new")
  BY DEF Quiet, QuietSteps
<1>5. ~Rewriting' /\ ~Committing' /\ ~Retired'
  BY <1>4 DEF Rewriting, Committing, Retired
<1>6. Rolling' /\ Starting' /\ Written'
  BY <1>4, <1>5 DEF Rolling, Starting, Written
<1>7. Retiring' /\ Working' /\ Backed'
  BY <1>4 DEF Retiring, Working, Backed, Incomplete
<1> QED  BY <1>2, <1>3, <1>6, <1>7 DEF ReleaseInv, Control

LEMMA PowerLoss ==
  ASSUME BackupsAtomic, ReleaseInv, Reboot
  PROVE  ReleaseInv' /\ Recovered' = Recovered
<1>1. Control /\ goal \in Goals /\ UNCHANGED <<disk, goal>>
  BY DEF ReleaseInv, FilesOK, Reboot
<1>2. act'.pc = "idle" /\ DOMAIN act' = PassFields /\ slot' = None /\ ~Incomplete(journal)
      /\ (done # None => done.synced \/ ~Incomplete(done.j))
  BY DEF Reboot, IdlePass, PassFields, MayDie
<1>3. PassOK' /\ SlotOK' /\ ~WorkerHoldsLock' /\ Quiet'
  BY <1>2 DEF PassOK, SlotOK, WorkerHoldsLock, Quiet, QuietSteps
<1>4. CASE UNCHANGED <<journal, done>>
  <2>1. Retiring' /\ Working'
    BY <1>1, <1>2, <1>3, <1>4 DEF Control, Retiring, Working, Incomplete
  <2>2. Backed' /\ Rolling' /\ Starting' /\ Written'
    BY <1>2, <1>3, <1>4, QuietStep
  <2> QED  BY <1>1, <1>3, <1>4, <2>1, <2>2, Untouched DEF Control
<1>5. CASE done # None /\ ~done.synced /\ journal' = done.j /\ done' = None
  BY <1>1, <1>2, <1>3, <1>5, JournalReturns
<1> QED  BY <1>4, <1>5 DEF Reboot

LEMMA RetirementUndone ==
  ASSUME BackupsAtomic, ReleaseInv, SyncFails
  PROVE  ReleaseInv' /\ Recovered' = Recovered
<1>1. Control /\ DOMAIN act = PassFields /\ act.pc = "sync"
  BY DEF ReleaseInv, Control, PassOK, SyncFails
<1>2. /\ done # None /\ ~done.synced /\ ~Incomplete(done.j)
      /\ journal' = done.j /\ done' = None /\ UNCHANGED <<disk, slot, goal>>
  BY <1>1 DEF SyncFails, Control, Retiring, MayDie
<1>3. /\ DOMAIN act' = PassFields /\ act'.pc \in Ends \cup {"committed"}
      /\ act'.intent = act.intent /\ act'.version = act.version
  BY <1>1 DEF SyncFails, Control, Rolling, PassFields
<1>4. act'.pc \in QuietSteps /\ act'.pc # "admit"
  BY <1>3 DEF QuietSteps, Ends
<1>5. PassOK' /\ SlotOK' /\ Quiet'
  BY <1>1, <1>2, <1>3, <1>4 DEF Control, PassOK, SlotOK, Quiet
<1>6. ~WorkerHoldsLock'
  BY <1>1, <1>2, Locked DEF WorkerHoldsLock
<1> QED  BY <1>2, <1>5, <1>6, JournalReturns

-----------------------------------------------------------------------------
(* More backups in the journal: what recovery would restore stays. *)
LEMMA JournalStep ==
  ASSUME NoneIsNoRecord, ReleaseInv, Control', journal # None, UNCHANGED <<disk, done, goal>>,
         NEW fs, fs \subseteq Files,
         DOMAIN journal' = JournalFields, journal'.phase \in Phases,
         journal'.saved = Save(fs) \/ (fs = {} /\ journal'.saved = journal.saved),
         journal'.phase \notin Unfinished =>
           DOMAIN journal.saved \cup fs \subseteq InstallFiles,
         journal'.phase \in Unfinished =>
           ApplyFiles \cup {"config", "unit"} \subseteq DOMAIN journal.saved \cup fs
  PROVE  ReleaseInv' /\ Recovered' = Recovered
<1>1. FilesOK /\ IsImage(disk) /\ JournalOK(journal) /\ IsBackup(journal.saved)
  BY DEF ReleaseInv, FilesOK, JournalOK
<1>2. journal' # None
  BY DEF NoneIsNoRecord
<1>3. /\ IsBackup(journal'.saved) /\ DOMAIN journal'.saved = DOMAIN journal.saved \cup fs
      /\ Over(journal'.saved, disk) = Over(journal.saved, disk)
  <2>1. CASE journal'.saved = Save(fs)
    BY <1>1, <2>1, OverSaved DEF Save
  <2>2. CASE fs = {} /\ journal'.saved = journal.saved
    BY <1>1, <2>2
  <2> QED  BY <2>1, <2>2
<1>4. Recovered' = Recovered
  BY <1>2, <1>3 DEF Recovered
<1>5. JournalOK(journal')
  BY <1>3 DEF JournalOK
<1>6. FilesOK'
  BY <1>1, <1>5 DEF FilesOK
<1> QED  BY <1>4, <1>6 DEF ReleaseInv

(* What every step of the pass keeps while it has a journal. *)
LEMMA PassFrame ==
  ASSUME ReleaseInv, act.pc # "idle", journal # None, UNCHANGED <<done, slot>>,
         DOMAIN act' = PassFields, act'.intent = act.intent, act'.version = act.version,
         act'.pc # "sync", act'.pc = "admit" => act'.outcome \in {"new", "kept", "failed"}
  PROVE  PassOK' /\ SlotOK' /\ Retiring' /\ Working'
<1>1. Control /\ done = None
  BY DEF ReleaseInv, Control, Retiring
<1>2. PassOK' /\ SlotOK'
  BY <1>1 DEF Control, PassOK, SlotOK
<1>3. Retiring'
  BY <1>1 DEF Retiring
<1>4. Working'
  BY <1>1, Locked DEF Working, WorkerHoldsLock
<1> QED  BY <1>2, <1>3, <1>4

LEMMA SnapshotSteps ==
  ASSUME NoneIsNoRecord, ReleaseInv, SnapshotMeta \/ SnapshotService
  PROVE  ReleaseInv' /\ Recovered' = Recovered
<1>1. Control /\ DOMAIN act = PassFields /\ UNCHANGED <<disk, done, slot, goal>>
      /\ act.pc \in {"snapmeta", "snapshot"}
  BY DEF ReleaseInv, Control, PassOK, SnapshotMeta, SnapshotService
<1>2. journal # None /\ journal.phase \notin Unfinished
  BY <1>1 DEF Control, Starting
<1>3. JournalOK(journal) /\ DOMAIN journal = JournalFields /\ journal.phase \in Phases
      /\ DOMAIN journal.saved \subseteq InstallFiles /\ IsBackup(journal.saved) /\ IsImage(disk)
  BY <1>2 DEF ReleaseInv, FilesOK, JournalOK
<1>4. CASE SnapshotMeta
  <2>1. /\ DOMAIN act' = PassFields /\ act'.intent = act.intent /\ act'.version = act.version
        /\ act'.pc = "snapshot"
    BY <1>1, <1>4, Moves DEF SnapshotMeta
  <2>2. DOMAIN journal' = JournalFields /\ journal'.phase = journal.phase
        /\ journal'.saved = Save(ApplyFiles)
    BY <1>3, <1>4 DEF SnapshotMeta, JournalFields
  <2>3. DOMAIN journal'.saved = DOMAIN journal.saved \cup ApplyFiles
    BY <1>3, <2>2, OverSaved DEF Save, ApplyFiles, Files, InstallFiles
  <2>4. journal' # None
    BY <2>2 DEF NoneIsNoRecord
  <2>5. PassOK' /\ SlotOK' /\ Retiring' /\ Working'
    BY <1>1, <1>2, <2>1, PassFrame
  <2>6. Backed' /\ Rolling' /\ Starting' /\ Written'
    BY <1>2, <2>1, <2>2, <2>3, <2>4 DEF Backed, Incomplete, Rolling, Starting, Written, Rewriting,
       Committing, Retired
  <2>7. ApplyFiles \subseteq Files /\ ApplyFiles \subseteq InstallFiles
    BY DEF ApplyFiles, Files, InstallFiles
  <2> QED  BY <1>1, <1>2, <1>3, <2>2, <2>5, <2>6, <2>7, JournalStep DEF Control
<1>5. CASE SnapshotService
  <2>1. /\ DOMAIN act' = PassFields /\ act'.intent = act.intent /\ act'.version = act.version
        /\ act'.pc = "preflight" /\ act.pc = "snapshot"
    BY <1>1, <1>5, Moves DEF SnapshotService
  <2>2. DOMAIN journal' = JournalFields /\ journal'.phase = "preflight"
        /\ journal'.policy = Policy /\ journal'.retained = act.intent
        /\ journal'.saved = Save({"unit", "config"})
    BY <1>3, <1>5 DEF SnapshotService, JournalFields
  <2>3. DOMAIN journal'.saved = DOMAIN journal.saved \cup {"unit", "config"}
    BY <1>3, <2>2, OverSaved DEF Save, Files
  <2>4. journal' # None /\ journal'.phase \in Unfinished /\ journal'.phase \in Phases
    BY <2>2 DEF NoneIsNoRecord, Unfinished, Phases
  <2>5. PassOK' /\ SlotOK' /\ Retiring' /\ Working'
    BY <1>1, <1>2, <2>1, PassFrame
  <2>6. ApplyFiles \subseteq DOMAIN journal.saved
    BY <1>1, <1>2, <2>1, Locked DEF Incomplete
  <2>7. Backed' /\ Rolling'
    BY <2>1, <2>3, <2>6 DEF Backed, Incomplete, Rolling
  <2>8. Starting'
    BY <2>1, <2>2, <2>4 DEF Starting, Rewriting, Committing, Retired, Policy
  <2>9. Bound
    <3>1. Recovered = Over(journal.saved, disk)
      BY <1>2 DEF Recovered
    <3>2. Recovered.config = disk.config /\ Recovered.unit = disk.unit
      <4>1. {"config", "unit"} \subseteq Files /\ "config" \notin DOMAIN journal.saved
            /\ "unit" \notin DOMAIN journal.saved
        BY <1>3 DEF Files, InstallFiles
      <4> QED  BY <1>3, <3>1, <4>1, OverImage
    <3>3. Slot!Whole(Recovered) /\ (Recovered.bin # None => disk.bin # None)
      BY DEF ReleaseInv, Good
    <3> QED  BY <3>2, <3>3 DEF Bound, Slot!Whole
  <2>10. Written'
    BY <1>1, <2>1, <2>9 DEF Written, Committing, Retired, Bound
  <2>11. {"unit", "config"} \subseteq Files
    BY DEF Files
  <2> QED  BY <1>1, <1>2, <1>3, <2>2, <2>4, <2>5, <2>6, <2>7, <2>8, <2>10, <2>11, JournalStep DEF Control
<1> QED  BY <1>4, <1>5

(* The phase moves on and nothing else. *)
LEMMA PhaseSteps ==
  ASSUME NoneIsNoRecord, ReleaseInv, Preflight \/ Validate
  PROVE  ReleaseInv' /\ Recovered' = Recovered
<1>1. Control /\ DOMAIN act = PassFields /\ UNCHANGED <<disk, done, slot, goal>>
      /\ act.pc \in {"preflight", "check", "disable"}
  BY DEF ReleaseInv, Control, PassOK, Preflight, Validate
<1>2. Rewriting /\ journal # None /\ journal.phase \in Unfinished
      /\ journal.retained = act.intent /\ journal.policy = Policy
  BY <1>1 DEF Control, Starting, Rewriting
<1>3. JournalOK(journal) /\ DOMAIN journal = JournalFields
      /\ ApplyFiles \cup {"config", "unit"} \subseteq DOMAIN journal.saved
  BY <1>2 DEF ReleaseInv, FilesOK, JournalOK
<1>4. /\ DOMAIN act' = PassFields /\ act'.intent = act.intent /\ act'.version = act.version
      /\ \/ act'.pc = "stop"
         \/ act'.pc = "admit" /\ act'.outcome = "new" /\ (Live => disk.config = act.intent)
  <2>1. CASE Preflight
    BY <1>1, <2>1 DEF Preflight, Go, PassFields, Changed
  <2>2. CASE Validate
    <3>1. /\ DOMAIN act' = PassFields /\ act'.intent = act.intent /\ act'.version = act.version
          /\ act'.pc = "admit" /\ act'.outcome = "new"
      BY <1>1, <2>2 DEF Validate, PassFields
    <3>2. act.pc \in {"check", "disable"}
      BY <2>2 DEF Validate
    <3>3. Live => disk.config = act.intent
      BY <1>1, <3>2 DEF Control, Written
    <3> QED  BY <3>1, <3>3
  <2> QED  BY <2>1, <2>2
<1>5. /\ DOMAIN journal' = JournalFields /\ journal'.phase \in {"applying", "validated"}
      /\ journal'.policy = journal.policy /\ journal'.retained = journal.retained
      /\ journal'.saved = journal.saved
  BY <1>3 DEF Preflight, Validate, JournalFields
<1>6. journal' # None /\ journal'.phase \in Unfinished /\ journal'.phase \in Phases
  BY <1>5 DEF NoneIsNoRecord, Unfinished, Phases
<1>7. PassOK' /\ SlotOK' /\ Retiring' /\ Working'
  BY <1>1, <1>2, <1>4, PassFrame
<1>8. Backed' /\ Rolling'
  BY <1>3, <1>4, <1>5 DEF Backed, Incomplete, Rolling
<1>9. Starting'
  BY <1>2, <1>4, <1>5, <1>6 DEF Starting, Rewriting, Committing, Retired, Policy
<1>10. Bound
  BY <1>1 DEF Control, Written
<1>11. Written'
  BY <1>1, <1>4, <1>10 DEF Written, Committing, Retired, Bound, Live
<1>12. PICK e : e = {}
  OBVIOUS
<1>13. e \subseteq Files /\ ApplyFiles \cup {"config", "unit"} \subseteq DOMAIN journal.saved \cup e
  BY <1>3, <1>12
<1>14. Control'
  BY <1>7, <1>8, <1>9, <1>11 DEF Control
<1> QED  BY <1>1, <1>2, <1>5, <1>6, <1>12, <1>13, <1>14, JournalStep

-----------------------------------------------------------------------------
(* A write to a file that has its backup. *)
LEMMA DiskStep ==
  ASSUME ReleaseInv, Control', journal # None, UNCHANGED <<journal, done, goal>>,
         NEW f \in DOMAIN journal.saved, NEW v \in Content(f), disk' = [disk EXCEPT ![f] = v],
         f = "bin" => v # None \/ v = journal.saved[f]
  PROVE  ReleaseInv' /\ Recovered' = Recovered
<1>1. FilesOK /\ IsImage(disk) /\ IsBackup(journal.saved) /\ f \in Files
  BY DEF ReleaseInv, FilesOK, JournalOK, IsBackup
<1>2. IsImage(disk') /\ disk'[f] = v /\ \A g \in Files \ {f} : disk'[g] = disk[g]
  <2>1. /\ IsImage([disk EXCEPT ![f] = v]) /\ [disk EXCEPT ![f] = v][f] = v
        /\ \A g \in Files \ {f} : [disk EXCEPT ![f] = v][g] = disk[g]
    BY ONLY <1>1, f \in Files, v \in Content(f), WriteFile
  <2> QED  BY <2>1
<1>3. Over(journal.saved, disk') = Over(journal.saved, disk)
  BY <1>1, <1>2, OverSame
<1>4. Recovered' = Recovered /\ Recovered = Over(journal.saved, disk)
  BY <1>3 DEF Recovered
<1>5. FilesOK'
  <2>1. done = None /\ goal \in Goals /\ JournalOK(journal)
    BY <1>1 DEF ReleaseInv, Control, Retiring, FilesOK
  <2> QED  BY <1>2, <2>1 DEF FilesOK
<1>6. Recovered.bin # None => disk'.bin # None
  <2>1. "bin" \in Files
    BY DEF Files, InstallFiles
  <2>2. CASE f = "bin"
    <3>1. Recovered.bin = journal.saved[f]
      BY <1>1, <1>4, <2>1, <2>2, OverImage
    <3> QED  BY <1>2, <2>2, <3>1
  <2>3. CASE f # "bin"
    BY <1>2, <2>1, <2>3 DEF ReleaseInv
  <2> QED  BY <2>2, <2>3
<1> QED  BY <1>4, <1>5, <1>6 DEF ReleaseInv

(* The writes of an activation and of its commit. *)
LEMMA ActivationWrites ==
  ASSUME ReleaseInv,
         WriteConfig \/ WriteUnit \/ CommitPolicy \/ CommitRetained \/ CompleteActivation
  PROVE  ReleaseInv' /\ Recovered' = Recovered
<1>1. Control /\ DOMAIN act = PassFields /\ UNCHANGED <<journal, done, slot, goal>>
      /\ act.pc \in {"config", "unit", "policy", "retained", "complete"}
  BY DEF ReleaseInv, Control, PassOK, WriteConfig, WriteUnit, CommitPolicy, CommitRetained,
     CompleteActivation
<1>2. /\ journal # None /\ journal.phase \in Unfinished /\ journal.retained = act.intent
      /\ journal.policy = Policy
  BY <1>1 DEF Control, Starting, Rewriting, Committing
<1>3. /\ IsImage(disk) /\ DOMAIN disk = Files
      /\ ApplyFiles \cup {"config", "unit"} \subseteq DOMAIN journal.saved
  BY <1>2 DEF ReleaseInv, FilesOK, JournalOK, IsImage
<1>4. act.intent \in Intents /\ Written
  BY <1>1 DEF Control, PassOK
<1>5. ~Incomplete(journal)
  BY <1>3 DEF Incomplete
<1>6. {"config", "unit", "policy", "retained", "activate", "bin"} \subseteq Files
  BY DEF Files, InstallFiles
<1>7. ASSUME act'.pc # "sync", act'.pc # "admit", act'.intent = act.intent, act'.version = act.version,
             DOMAIN act' = PassFields,
             act'.pc \in {"unit", "restart", "retained", "complete"} \/ Retired',
             Written'
      PROVE  Control'
  <2>1. PassOK' /\ SlotOK' /\ Retiring' /\ Working'
    BY <1>1, <1>2, <1>7, PassFrame
  <2>2. Backed' /\ Rolling'
    BY <1>1, <1>2, <1>5, <1>7 DEF Backed, Incomplete, Rolling, Retired
  <2>3. Starting'
    BY <1>1, <1>2, <1>7 DEF Starting, Policy, Retired
  <2> QED  BY <1>7, <2>1, <2>2, <2>3 DEF Control
<1>8. CASE WriteConfig
  <2>1. /\ DOMAIN act' = PassFields /\ act'.intent = act.intent /\ act'.version = act.version
        /\ act'.pc = "unit" /\ act.pc = "config" /\ disk' = [disk EXCEPT !["config"] = act.intent]
    BY <1>1, <1>8, Moves DEF WriteConfig
  <2>2. disk'.config = act.intent
    BY <1>3, <1>6, <2>1
  <2>3. Written'
    BY <1>4, <2>1, <2>2 DEF Written, Committing, Retired, Live
  <2> QED  BY <1>1, <1>2, <1>3, <1>4, <1>7, <2>1, <2>3, DiskStep, Contents
<1>9. CASE WriteUnit
  <2>1. /\ DOMAIN act' = PassFields /\ act'.intent = act.intent /\ act'.version = act.version
        /\ act'.pc = "restart" /\ act.pc = "unit" /\ disk' = [disk EXCEPT !["unit"] = act.intent]
    BY <1>1, <1>9, Moves DEF WriteUnit
  <2>2. disk'.unit = act.intent /\ disk'.config = disk.config
    BY <1>3, <1>6, <2>1
  <2>3. Written'
    BY <1>4, <2>1, <2>2 DEF Written, Committing, Retired, Live
  <2> QED  BY <1>1, <1>2, <1>3, <1>4, <1>7, <2>1, <2>3, DiskStep, Contents
<1>10. CASE CommitPolicy
  <2>1. /\ DOMAIN act' = PassFields /\ act'.intent = act.intent /\ act'.version = act.version
        /\ act'.pc = "retained" /\ act.pc = "policy" /\ disk' = [disk EXCEPT !["policy"] = Policy]
    BY <1>1, <1>2, <1>10, Moves DEF CommitPolicy
  <2>2. disk'.policy = Policy /\ \A g \in {"config", "unit", "bin"} : disk'[g] = disk[g]
    BY <1>3, <1>6, <2>1
  <2>3. Committing
    BY <2>1 DEF Committing
  <2>4. Written'
    BY <1>4, <2>1, <2>2, <2>3 DEF Written, Committing, Retired, Bound, Live, Policy
  <2>5. Policy \in Content("policy")
    BY <1>4, Contents DEF Policy
  <2> QED  BY <1>1, <1>2, <1>3, <1>7, <2>1, <2>4, <2>5, DiskStep DEF ApplyFiles
<1>11. CASE CommitRetained
  <2>1. /\ DOMAIN act' = PassFields /\ act'.intent = act.intent /\ act'.version = act.version
        /\ act'.pc = "complete" /\ act.pc = "retained"
        /\ disk' = [disk EXCEPT !["retained"] = act.intent]
    BY <1>1, <1>2, <1>11, Moves DEF CommitRetained
  <2>2. disk'.retained = act.intent /\ \A g \in {"config", "unit", "bin", "policy"} : disk'[g] = disk[g]
    BY <1>3, <1>6, <2>1
  <2>3. Committing
    BY <2>1 DEF Committing
  <2>4. Written'
    BY <1>4, <2>1, <2>2, <2>3 DEF Written, Committing, Retired, Bound, Live, Policy
  <2> QED  BY <1>1, <1>2, <1>3, <1>4, <1>7, <2>1, <2>4, DiskStep, Contents DEF ApplyFiles
<1>12. CASE CompleteActivation
  <2>1. /\ DOMAIN act' = PassFields /\ act'.intent = act.intent /\ act'.version = act.version
        /\ act'.pc = "retire" /\ act'.next = "committed" /\ act.pc = "complete"
        /\ disk' = [disk EXCEPT !["activate"] = None]
    BY <1>1, <1>12 DEF CompleteActivation, PassFields
  <2>2. disk'.activate = None
        /\ \A g \in {"config", "unit", "bin", "policy", "retained"} : disk'[g] = disk[g]
    BY <1>3, <1>6, <2>1
  <2>3. Committing /\ Retired'
    BY <2>1 DEF Committing, Retired
  <2>4. Written'
    BY <1>4, <2>1, <2>2, <2>3 DEF Written, Committing, Bound, Live, Policy
  <2> QED  BY <1>1, <1>2, <1>3, <1>7, <2>1, <2>3, <2>4, DiskStep, Contents DEF ApplyFiles
<1> QED  BY <1>8, <1>9, <1>10, <1>11, <1>12

LEMMA RollbackWrites ==
  ASSUME ReleaseInv, RollbackFile
  PROVE  ReleaseInv' /\ Recovered' = Recovered
<1>1. Control /\ UNCHANGED <<journal, done, act, slot, goal>> /\ act.pc = "rbFiles" /\ journal # None
      /\ DOMAIN act = PassFields
  BY DEF ReleaseInv, Control, PassOK, Rolling, RollbackFile
<1>2. PICK f \in DOMAIN journal.saved : disk' = [disk EXCEPT ![f] = journal.saved[f]]
  BY DEF RollbackFile, RestoreFile, Unrestored
<1>3. journal.saved[f] \in Content(f)
  BY <1>1 DEF ReleaseInv, FilesOK, JournalOK, IsBackup
<1>4. PassOK' /\ SlotOK' /\ Retiring' /\ Working'
  BY <1>1, PassFrame
<1>5. Backed' /\ Rolling'
  BY <1>1 DEF Control, Backed, Incomplete, Rolling
<1>6. Starting' /\ Written'
  BY <1>1 DEF Starting, Written, Rewriting, Committing, Retired
<1> QED  BY <1>1, <1>2, <1>3, <1>4, <1>5, <1>6, DiskStep DEF Control

-----------------------------------------------------------------------------
(* What the worker's steps keep. *)
LEMMA WorkerFrame ==
  ASSUME ReleaseInv, slot # None,
         slot.pc \in {"saving", "mark", "binary", "receipt", "staged", "undo"}, UNCHANGED <<act, done>>
  PROVE  /\ act.pc = "idle" /\ done = None /\ journal # None /\ journal.phase = "installing"
         /\ JournalOK(journal) /\ DOMAIN journal = JournalFields /\ IsImage(disk)
         /\ IsBackup(journal.saved) /\ DOMAIN journal.saved \subseteq InstallFiles
         /\ DOMAIN slot = {"version", "pc", "err"} /\ slot.version \in Versions
         /\ IF slot.pc = "saving" THEN DOMAIN journal.saved = {}
            ELSE DOMAIN journal.saved = InstallFiles
         /\ PassOK' /\ Retiring' /\ Rolling' /\ Starting' /\ Written'
<1>1. Control /\ WorkerHoldsLock
  BY DEF ReleaseInv, WorkerHoldsLock
<1>2. /\ act.pc = "idle" /\ journal # None /\ journal.phase = "installing"
      /\ IF slot.pc = "saving" THEN DOMAIN journal.saved = {}
         ELSE InstallFiles \subseteq DOMAIN journal.saved
  BY <1>1 DEF Control, Working
<1>3. done = None /\ DOMAIN slot = {"version", "pc", "err"} /\ slot.version \in Versions
  BY <1>1, <1>2 DEF Control, Retiring, SlotOK
<1>4. /\ JournalOK(journal) /\ DOMAIN journal = JournalFields /\ IsImage(disk)
      /\ IsBackup(journal.saved)
  BY <1>2 DEF ReleaseInv, FilesOK, JournalOK
<1>5. DOMAIN journal.saved \subseteq InstallFiles
  BY <1>2, <1>4 DEF JournalOK, Unfinished
<1>6. PassOK' /\ Retiring'
  BY <1>1, <1>2, <1>3 DEF Control, PassOK, Retiring
<1>7. Rolling' /\ Starting' /\ Written'
  BY <1>2 DEF Rolling, Starting, Written, Rewriting, Committing, Retired
<1> QED  BY <1>2, <1>3, <1>4, <1>5, <1>6, <1>7

(* The worker's journal gets its backups, and later its phase. *)
LEMMA WorkerJournal ==
  ASSUME NoneIsNoRecord, ReleaseInv, Backup \/ Staged
  PROVE  ReleaseInv' /\ Recovered' = Recovered
<1>1. /\ slot # None /\ slot.pc \in {"saving", "staged"} /\ UNCHANGED <<disk, act, done, goal>>
  BY DEF Backup, Staged
<1>2. /\ journal # None /\ act.pc = "idle" /\ done = None /\ DOMAIN journal = JournalFields
      /\ journal.phase = "installing" /\ IsImage(disk)
      /\ IsBackup(journal.saved) /\ DOMAIN journal.saved \subseteq InstallFiles
      /\ DOMAIN slot = {"version", "pc", "err"} /\ slot.version \in Versions
      /\ IF slot.pc = "saving" THEN DOMAIN journal.saved = {} ELSE DOMAIN journal.saved = InstallFiles
      /\ PassOK' /\ Retiring' /\ Rolling' /\ Starting' /\ Written'
  BY <1>1, WorkerFrame
<1>3. InstallFiles \subseteq Files /\ ApplyFiles \subseteq InstallFiles
  BY DEF InstallFiles, ApplyFiles, Files
<1>4. "installing" \in Phases \ Unfinished /\ "installed" \in Phases \ Unfinished
  BY DEF Phases, Unfinished
<1>5. CASE Backup
  <2>1. /\ DOMAIN journal' = JournalFields /\ journal'.phase = "installing"
        /\ journal'.saved = Save(InstallFiles)
        /\ slot' = [slot EXCEPT !.pc = "mark"]
    BY <1>2, <1>5 DEF Backup, JournalFields, WorkerGo
  <2>2. DOMAIN slot' = {"version", "pc", "err"} /\ slot'.version = slot.version /\ slot'.pc = "mark"
    BY <1>2, <2>1
  <2>3. DOMAIN journal'.saved = InstallFiles
    <3>1. DOMAIN journal'.saved = DOMAIN journal.saved \cup InstallFiles
      BY <1>2, <1>3, <2>1, OverSaved DEF Save
    <3> QED  BY <1>2, <3>1
  <2>4. journal' # None
    BY <2>1 DEF NoneIsNoRecord
  <2>5. SlotOK' /\ Working' /\ Backed'
    BY <1>1, <1>2, <1>3, <2>1, <2>2, <2>3, <2>4 DEF SlotOK, Working, Backed, Incomplete
  <2>6. Control'
    BY <1>2, <2>5 DEF Control
  <2> QED  BY <1>1, <1>2, <1>3, <1>4, <2>1, <2>6, JournalStep
<1>6. CASE Staged
  <2>1. /\ DOMAIN journal' = JournalFields /\ journal'.phase = "installed"
        /\ journal'.saved = journal.saved
        /\ slot' = [slot EXCEPT !.pc = "finished", !.err = FALSE]
    BY <1>2, <1>6 DEF Staged, JournalFields, WorkerEnds
  <2>2. DOMAIN slot' = {"version", "pc", "err"} /\ slot'.version = slot.version /\ slot'.pc = "finished"
    BY <1>2, <2>1
  <2>3. DOMAIN journal.saved = InstallFiles
    BY <1>2, <1>6 DEF Staged
  <2>4. SlotOK' /\ Working' /\ Backed'
    BY <1>2, <1>3, <2>1, <2>2, <2>3 DEF SlotOK, Working, WorkerHoldsLock, Backed, Incomplete
  <2>5. Control'
    BY <1>2, <2>4 DEF Control
  <2>6. PICK e : e = {}
    OBVIOUS
  <2>7. e \subseteq Files /\ DOMAIN journal.saved \cup e \subseteq InstallFiles
    BY <1>2, <2>6
  <2> QED  BY <1>1, <1>2, <1>4, <2>1, <2>5, <2>6, <2>7, JournalStep
<1> QED  BY <1>5, <1>6

(* The worker's writes. *)
LEMMA WorkerWrites ==
  ASSUME ReleaseInv, MarkActivation \/ CommitBinary \/ WriteTrusted \/ WorkerRestores
  PROVE  ReleaseInv' /\ Recovered' = Recovered
<1>1. /\ slot # None /\ slot.pc \in {"mark", "binary", "receipt", "undo"}
      /\ UNCHANGED <<act, done, goal>>
  BY DEF MarkActivation, CommitBinary, WriteTrusted, WorkerRestores
<1>2. /\ journal # None /\ act.pc = "idle" /\ done = None /\ JournalOK(journal) /\ IsImage(disk)
      /\ IsBackup(journal.saved) /\ journal.phase = "installing"
      /\ DOMAIN slot = {"version", "pc", "err"} /\ slot.version \in Versions
      /\ DOMAIN journal.saved = InstallFiles
      /\ PassOK' /\ Retiring' /\ Rolling' /\ Starting' /\ Written'
  BY <1>1, WorkerFrame
<1>3. ASSUME journal' = journal, DOMAIN slot' = {"version", "pc", "err"}, slot'.version = slot.version,
             slot'.pc \in {"binary", "receipt", "staged", "undo"}
      PROVE  Control'
  <2>1. SlotOK' /\ Working' /\ Backed'
    BY <1>1, <1>2, <1>3 DEF SlotOK, Working, Backed, Incomplete, ApplyFiles, InstallFiles
  <2> QED  BY <1>2, <2>1 DEF Control
<1>4. slot.version # None /\ {"activate", "bin", "trusted"} \subseteq InstallFiles
  BY <1>2, ActivationAssumption DEF InstallFiles
<1>5. CASE MarkActivation
  <2>1. /\ disk' = [disk EXCEPT !["activate"] = "pending"] /\ journal' = journal
        /\ DOMAIN slot' = {"version", "pc", "err"} /\ slot'.version = slot.version /\ slot'.pc = "binary"
    BY <1>2, <1>5 DEF MarkActivation, WorkerGo
  <2>2. Control'
    BY <1>3, <2>1
  <2> QED  BY <1>1, <1>2, <1>4, <2>1, <2>2, DiskStep, Contents
<1>6. CASE CommitBinary
  <2>1. /\ disk' = [disk EXCEPT !["bin"] = slot.version] /\ journal' = journal
        /\ DOMAIN slot' = {"version", "pc", "err"} /\ slot'.version = slot.version /\ slot'.pc = "receipt"
    BY <1>2, <1>6 DEF CommitBinary, WorkerGo
  <2>2. Control'
    BY <1>3, <2>1
  <2> QED  BY <1>1, <1>2, <1>4, <2>1, <2>2, DiskStep, Contents
<1>7. CASE WriteTrusted
  <2>1. /\ disk' = [disk EXCEPT !["trusted"] = slot.version] /\ journal' = journal
        /\ DOMAIN slot' = {"version", "pc", "err"} /\ slot'.version = slot.version /\ slot'.pc = "staged"
    BY <1>2, <1>7 DEF WriteTrusted, WorkerGo
  <2>2. Control'
    BY <1>3, <2>1
  <2> QED  BY <1>1, <1>2, <1>4, <2>1, <2>2, DiskStep, Contents
<1>8. CASE WorkerRestores /\ Unrestored # {}
  <2>1. slot.pc = "undo" /\ slot' = slot /\ journal' = journal
    BY <1>8 DEF WorkerRestores
  <2>2. PICK f \in DOMAIN journal.saved : disk' = [disk EXCEPT ![f] = journal.saved[f]]
    BY <1>8 DEF WorkerRestores, RestoreFile, Unrestored
  <2>3. journal.saved[f] \in Content(f)
    BY <1>2 DEF IsBackup
  <2>4. Control'
    BY <1>2, <1>3, <2>1
  <2> QED  BY <1>1, <1>2, <2>1, <2>2, <2>3, <2>4, DiskStep
<1>9. CASE WorkerRestores /\ Unrestored = {}
  <2>1. /\ journal' = None /\ disk' = disk
        /\ DOMAIN slot' = {"version", "pc", "err"} /\ slot'.version = slot.version
        /\ slot'.pc = "finished"
    BY <1>2, <1>9 DEF WorkerRestores, WorkerEnds
  <2>2. SlotOK' /\ Working' /\ Backed'
    BY <1>2, <2>1 DEF SlotOK, Working, WorkerHoldsLock, Backed, Incomplete
  <2>3. \A f \in DOMAIN journal.saved : disk[f] = journal.saved[f]
    BY <1>9 DEF Unrestored
  <2>4. Recovered = disk
    BY <1>2, <2>3, OverRestored DEF Recovered
  <2>5. Recovered' = disk
    BY <1>1, <1>2, <2>1 DEF Recovered
  <2>6. FilesOK'
    BY <1>1, <1>2, <2>1 DEF ReleaseInv, FilesOK
  <2> QED  BY <1>2, <2>1, <2>2, <2>4, <2>5, <2>6 DEF ReleaseInv, Control
<1> QED  BY <1>5, <1>6, <1>7, <1>8, <1>9

-----------------------------------------------------------------------------
(* A retirement is under way. *)
Ending == journal = None /\ done # None /\ ~done.synced

(* Without a journal the files on disk are a whole release. *)
LEMMA DiskIsWhole ==
  ASSUME ReleaseInv, journal = None
  PROVE  Good(disk) /\ IsImage(disk) /\ disk.policy \in Policies \cup {None}
<1>1. Good(disk)
  BY DEF ReleaseInv, Recovered, Control, Retiring
<1>2. IsImage(disk)
  BY DEF ReleaseInv, FilesOK
<1>3. "policy" \in Files /\ disk.policy \in Content("policy")
  BY <1>2 DEF IsImage, IsBackup, Files, InstallFiles
<1> QED  BY <1>1, <1>2, <1>3 DEF Content

(* A new journal is empty: recovery would keep the files as they are. *)
LEMMA NewJournalStep ==
  ASSUME NoneIsNoRecord, ReleaseInv, Control', journal = None, UNCHANGED <<disk, goal>>, done' = None,
         NEW phase \in {"installing", "installed"}, journal' = NewJournal(phase)
  PROVE  ReleaseInv' /\ (Recovered' = Recovered \/ Ending)
<1>1. Good(disk) /\ IsImage(disk)
  BY DiskIsWhole
<1>2. DOMAIN journal' = JournalFields /\ journal'.phase = phase /\ journal'.saved = <<>>
  BY DEF NewJournal, JournalFields
<1>3. journal' # None
  BY <1>2 DEF NoneIsNoRecord
<1>4. DOMAIN journal'.saved = {} /\ IsBackup(journal'.saved)
  BY <1>2 DEF IsBackup
<1>5. JournalOK(journal')
  BY <1>2, <1>4 DEF JournalOK, Phases, Unfinished
<1>6. Recovered' = disk
  BY <1>1, <1>3, <1>4, OverEmpty DEF Recovered
<1>7. FilesOK'
  BY <1>1, <1>5 DEF ReleaseInv, FilesOK
<1>8. Recovered' = Recovered \/ Ending
  BY <1>6 DEF Recovered, Ending
<1> QED  BY <1>1, <1>6, <1>7, <1>8 DEF ReleaseInv

LEMMA BeginSteps ==
  ASSUME NoneIsNoRecord, ReleaseInv, BeginCoreApply
  PROVE  ReleaseInv' /\ (Recovered' = Recovered \/ Ending)
<1>1. Control /\ DOMAIN act = PassFields /\ act.pc = "apply" /\ UNCHANGED <<disk, slot, goal>>
  BY DEF ReleaseInv, Control, PassOK, BeginCoreApply
<1>2. ~Incomplete(journal) /\ ~WorkerHoldsLock /\ (slot # None => slot.pc # "saving")
  BY <1>1, Locked
<1>3. CASE journal # None /\ journal.phase \in Unfinished
  <2>1. Rollback(Policy, "applyFailed") /\ UNCHANGED <<journal, done>>
    BY <1>3 DEF BeginCoreApply
  <2> QED  BY <1>1, <1>2, <1>3, <2>1, RollsBack DEF Ends
<1>4. CASE journal # None /\ journal.phase \notin Unfinished
  <2>1. UNCHANGED <<journal, done>> /\ Go("snapshot")
    BY <1>4 DEF BeginCoreApply
  <2>2. /\ DOMAIN act' = PassFields /\ act'.intent = act.intent /\ act'.version = act.version
        /\ act'.pc = "snapshot"
    BY <1>1, <2>1, Moves
  <2>3. Backed' /\ Rolling'
    BY <1>2, <2>1, <2>2 DEF Backed, Incomplete, Rolling
  <2>4. Starting' /\ Written'
    BY <1>4, <2>1, <2>2 DEF Starting, Written, Rewriting, Committing, Retired
  <2> QED  BY <1>1, <2>1, <2>2, <2>3, <2>4, PassStep
<1>5. CASE journal = None
  <2>1. journal' = NewJournal("installed") /\ done' = None /\ Go("snapmeta")
    BY <1>5 DEF BeginCoreApply
  <2>2. /\ DOMAIN act' = PassFields /\ act'.intent = act.intent /\ act'.version = act.version
        /\ act'.pc = "snapmeta"
    BY <1>1, <2>1, Moves
  <2>3. DOMAIN journal' = JournalFields /\ journal'.phase = "installed" /\ DOMAIN journal'.saved = {}
    BY <2>1 DEF NewJournal, JournalFields
  <2>4. journal' # None /\ journal'.phase \notin Unfinished
    BY <2>3 DEF NoneIsNoRecord, Unfinished
  <2>5. PassOK' /\ SlotOK' /\ Retiring' /\ Working'
    BY <1>1, <1>2, <2>1, <2>2 DEF Control, PassOK, SlotOK, Retiring, Working, WorkerHoldsLock
  <2>6. Backed' /\ Rolling' /\ Starting' /\ Written'
    BY <2>2, <2>3, <2>4 DEF Backed, Rolling, Starting, Written, Rewriting, Committing, Retired
  <2> QED  BY <1>1, <1>5, <2>1, <2>5, <2>6, NewJournalStep DEF Control
<1> QED  BY <1>3, <1>4, <1>5

LEMMA PrepareSteps ==
  ASSUME NoneIsNoRecord, ReleaseInv, Prepare
  PROVE  ReleaseInv' /\ (Recovered' = Recovered \/ Ending)
<1>1. /\ Control /\ act.pc = "idle" /\ slot # None /\ slot.pc = "waiting"
      /\ UNCHANGED <<disk, act, goal>>
      /\ DOMAIN slot = {"version", "pc", "err"} /\ slot.version \in Versions
  BY DEF ReleaseInv, Control, SlotOK, Prepare
<1>2. PassOK' /\ Rolling' /\ Starting' /\ Written'
  BY <1>1 DEF Control, PassOK, Rolling, Starting, Written, Rewriting, Committing, Retired
<1>3. CASE journal # None
  <2>1. /\ UNCHANGED <<journal, done>> /\ DOMAIN slot' = {"version", "pc", "err"}
        /\ slot'.version = slot.version /\ slot'.pc = "finished"
    BY <1>1, <1>3 DEF Prepare, WorkerEnds
  <2>2. SlotOK' /\ Working' /\ Retiring'
    BY <1>1, <2>1 DEF Control, SlotOK, Working, WorkerHoldsLock, Retiring, Incomplete
  <2>3. Backed'
    BY <1>1, <2>1 DEF Control, Backed, Incomplete
  <2>4. goal' \in Goals
    BY <1>1 DEF ReleaseInv, FilesOK
  <2> QED  BY <1>1, <1>2, <2>1, <2>2, <2>3, <2>4, Untouched DEF Control
<1>4. CASE journal = None
  <2>1. /\ journal' = NewJournal("installing") /\ done' = None
        /\ DOMAIN slot' = {"version", "pc", "err"} /\ slot'.version = slot.version
        /\ slot'.pc = "saving"
    BY <1>1, <1>4 DEF Prepare, WorkerGo
  <2>2. DOMAIN journal' = JournalFields /\ journal'.phase = "installing" /\ DOMAIN journal'.saved = {}
    BY <2>1 DEF NewJournal, JournalFields
  <2>3. journal' # None
    BY <2>2 DEF NoneIsNoRecord
  <2>4. SlotOK' /\ Retiring' /\ Working'
    BY <1>1, <2>1, <2>2, <2>3 DEF SlotOK, Retiring, Working
  <2>5. slot' # None
    BY <2>1 DEF NoneIsNoRecord
  <2>6. Backed'
    BY <2>1, <2>2, <2>5 DEF Backed
  <2> QED  BY <1>1, <1>2, <1>4, <2>1, <2>4, <2>6, NewJournalStep DEF Control
<1> QED  BY <1>3, <1>4

(* The retired journal: what is beneath it is whole. *)
LEMMA RetireSteps ==
  ASSUME NoneIsNoRecord, ReleaseInv, Retire
  PROVE  ReleaseInv' /\ Recovered' = Recovered
<1>1. Control /\ DOMAIN act = PassFields /\ act.pc = "retire" /\ UNCHANGED <<disk, slot, goal>>
      /\ journal' = None /\ done' = [j |-> journal, synced |-> FALSE] /\ Go("sync")
  BY DEF ReleaseInv, Control, PassOK, Retire
<1>2. /\ DOMAIN act' = PassFields /\ act'.intent = act.intent /\ act'.version = act.version
      /\ act'.pc = "sync" /\ act'.next = act.next
  BY <1>1, Moves
<1>3. journal # None /\ act.next \in Ends \cup {"committed"} /\ Rolling /\ Starting /\ Written
  BY <1>1 DEF Control, Rolling
<1>4. done' # None /\ done'.j = journal /\ done'.synced = FALSE /\ DOMAIN done' = {"j", "synced"}
  BY <1>1 DEF NoneIsNoRecord
<1>5. JournalOK(journal) /\ IsImage(disk) /\ IsBackup(journal.saved) /\ goal \in Goals
  BY <1>3 DEF ReleaseInv, FilesOK, JournalOK
<1>6. Recovered = Over(journal.saved, disk) /\ Recovered' = Recovered
  BY <1>1, <1>3, <1>4 DEF Recovered
<1>7. Good(disk)
  <2>1. CASE act.next = "committed"
    <3>1. Retired /\ Committing
      BY <1>1, <2>1 DEF Retired, Committing
    <3>2. /\ disk.activate = None /\ disk.policy = Policy /\ disk.retained = act.intent /\ Bound
          /\ Live => disk.config = act.intent
      BY <1>3, <3>1 DEF Written
    <3>3. act.intent \in Intents /\ act.intent # None
      BY <1>1, ActivationAssumption DEF Control, PassOK
    <3> QED  BY <1>5, <3>2, <3>3 DEF Good, Slot!Whole, Bound, Live, Policy
  <2>2. CASE act.next # "committed"
    <3>1. Unrestored = {}
      BY <1>1, <1>3, <2>2 DEF Rolling
    <3>2. \A f \in DOMAIN journal.saved : disk[f] = journal.saved[f]
      BY <3>1 DEF Unrestored
    <3>3. Recovered = disk
      BY <1>5, <1>6, <3>2, OverRestored
    <3> QED  BY <3>3 DEF ReleaseInv
  <2> QED  BY <2>1, <2>2
<1>8. PassOK' /\ SlotOK'
  BY <1>1, <1>2 DEF Control, PassOK, SlotOK
<1>9. Good(disk)'
  BY <1>1, <1>7 DEF Good
<1>10. Retiring'
  BY <1>1, <1>2, <1>4, <1>9 DEF Retiring
<1>11. Working' /\ Backed'
  BY <1>1, <1>2, Locked DEF Working, WorkerHoldsLock, Backed, Incomplete
<1>12. Rolling' /\ Starting' /\ Written'
  BY <1>2, <1>3 DEF Rolling, Starting, Written, Rewriting, Committing, Retired
<1>13. FilesOK'
  BY <1>1, <1>3, <1>4, <1>5 DEF FilesOK
<1> QED  BY <1>1, <1>6, <1>8, <1>10, <1>11, <1>12, <1>13 DEF ReleaseInv, Control

(* The last step of a retirement, and the one that finds it half done. *)
LEMMA SyncSteps ==
  ASSUME NoneIsNoRecord, ReleaseInv, Sync
  PROVE  ReleaseInv' /\ (Recovered' = Recovered \/ Ending)
<1>1. Control /\ DOMAIN act = PassFields /\ act.pc = "sync" /\ UNCHANGED <<disk, journal, slot, goal>>
  BY DEF ReleaseInv, Control, PassOK, Sync
<1>2. done # None /\ journal = None /\ Good(disk) /\ act.next \in Ends \cup {"committed"}
  BY <1>1 DEF Control, Retiring, Rolling
<1>3. DOMAIN done = {"j", "synced"} /\ JournalOK(done.j) /\ done.j # None /\ IsImage(disk)
      /\ goal \in Goals
  BY <1>2 DEF ReleaseInv, FilesOK
<1>4. /\ DOMAIN act' = PassFields /\ act'.intent = act.intent /\ act'.version = act.version
      /\ act'.pc = act.next
  BY <1>1 DEF Sync, PassFields
<1>5. done' = None \/ (DOMAIN done' = {"j", "synced"} /\ done'.j = done.j /\ done'.synced = TRUE)
  BY <1>3 DEF Sync
<1>6. act'.pc \in QuietSteps /\ act'.pc # "admit" /\ act'.pc # "sync"
  BY <1>2, <1>4 DEF QuietSteps, Ends
<1>7. Recovered' = disk
  BY <1>1, <1>2, <1>5 DEF Recovered
<1>8. FilesOK'
  BY <1>1, <1>2, <1>3, <1>5 DEF FilesOK
<1>9. PassOK' /\ SlotOK'
  BY <1>1, <1>4, <1>6 DEF Control, PassOK, SlotOK
<1>10. Good(disk)'
  BY <1>1, <1>2 DEF Good
<1>11. Retiring'
  BY <1>1, <1>2, <1>5, <1>6, <1>10 DEF Retiring
<1>12. Working'
  BY <1>1, Locked DEF Working, WorkerHoldsLock
<1>13. Backed' /\ Rolling' /\ Starting' /\ Written'
  BY <1>1, <1>2, <1>6, QuietStep DEF Quiet, Incomplete
<1>14. Ending
  BY <1>1, <1>2 DEF Control, Retiring, Ending
<1> QED  BY <1>1, <1>2, <1>7, <1>8, <1>9, <1>11, <1>12, <1>13, <1>14 DEF ReleaseInv, Control

LEMMA RecoverSteps ==
  ASSUME ReleaseInv, Recover
  PROVE  ReleaseInv' /\ (Recovered' = Recovered \/ Ending)
<1>1. Control /\ DOMAIN act = PassFields /\ act.pc = "recover" /\ done' = None
      /\ UNCHANGED <<disk, journal, slot, goal>>
  BY DEF ReleaseInv, Control, PassOK, Recover
<1>2. ~Incomplete(journal) /\ ~WorkerHoldsLock
  BY <1>1, Locked
<1>3. /\ DOMAIN act' = PassFields /\ act'.intent = act.intent /\ act'.version = act.version
      /\ \/ act'.pc \in {"recorded", "apply"}
         \/ act'.pc = "rbStop" /\ act'.next = "recorded" /\ journal # None
  BY <1>1 DEF Recover, Go, Rollback, PassFields
<1>4. PassOK' /\ SlotOK' /\ Retiring' /\ Working'
  BY <1>1, <1>2, <1>3 DEF Control, PassOK, SlotOK, Retiring, Working, WorkerHoldsLock
<1>5. Backed' /\ Rolling'
  BY <1>1, <1>2, <1>3 DEF Backed, Incomplete, Rolling, Ends
<1>6. Starting' /\ Written'
  BY <1>3 DEF Starting, Written, Rewriting, Committing, Retired
<1>7. FilesOK'
  BY <1>1 DEF ReleaseInv, FilesOK
<1>8. CASE journal # None
  <2>1. Recovered' = Recovered
    BY <1>1, <1>8 DEF Recovered
  <2> QED  BY <1>1, <1>4, <1>5, <1>6, <1>7, <2>1 DEF ReleaseInv, Control
<1>9. CASE journal = None
  <2>1. Recovered' = disk
    BY <1>1, <1>9 DEF Recovered
  <2>2. Good(disk)
    BY <1>9, DiskIsWhole
  <2>3. Recovered' = Recovered \/ Ending
    BY <1>9, <2>1 DEF Recovered, Ending
  <2> QED  BY <1>1, <1>4, <1>5, <1>6, <1>7, <2>1, <2>2, <2>3 DEF ReleaseInv, Control
<1> QED  BY <1>8, <1>9

-----------------------------------------------------------------------------
(* A host without the core. *)
LEMMA ReleaseInit ==
  ASSUME ActInit
  PROVE  ReleaseInv /\ Slot!SlotInit
<1>1. /\ disk = [f \in Files |-> None] /\ journal = None /\ done = None /\ slot = None
      /\ act = IdlePass /\ goal \in Goals
  BY DEF ActInit
<1>2. IsImage(disk)
  BY <1>1 DEF IsImage, IsBackup, Content
<1>3. Recovered = disk
  BY <1>1 DEF Recovered
<1>4. \A f \in {"activate", "bin", "unit", "config", "retained", "policy"} : disk[f] = None
  BY <1>1 DEF Files, InstallFiles
<1>5. Good(disk)
  BY <1>2, <1>4 DEF Good, Slot!Whole
<1>6. FilesOK
  BY <1>1, <1>2 DEF FilesOK
<1>7. act.pc = "idle" /\ DOMAIN act = PassFields
  BY <1>1 DEF IdlePass, PassFields
<1>8. PassOK /\ SlotOK /\ Retiring /\ Working /\ Backed
  BY <1>1, <1>7 DEF PassOK, SlotOK, Retiring, Working, WorkerHoldsLock, Backed, Incomplete
<1>9. Rolling /\ Starting /\ Written
  BY <1>7 DEF Rolling, Starting, Written, Rewriting, Committing, Retired
<1>10. Slot!SlotInit
  <2>1. Files = Slot!Files
    BY DEF Files, InstallFiles, Slot!Files
  <2> QED  BY <1>1, <1>3, <2>1 DEF Slot!SlotInit
<1> QED  BY <1>3, <1>5, <1>6, <1>8, <1>9, <1>10 DEF ReleaseInv, Control

LEMMA ReleaseStep ==
  ASSUME BackupsAtomic, NoneIsNoRecord, ReleaseInv, [ActNext]_actVars
  PROVE  ReleaseInv' /\ (Recovered' = Recovered \/ Ending)
<1>1. CASE Pass
  <2>1. CASE Converge
    BY <2>1, IdleSteps
  <2>2. CASE Recover
    BY <2>2, RecoverSteps
  <2>3. CASE Recorded \/ Start
    BY <2>3, InstallSteps
  <2>4. CASE InstallFailed \/ Decide \/ Committed \/ Undone \/ Receipt
    BY <2>4, PassSteps
  <2>5. CASE BeginCoreApply
    BY <2>5, BeginSteps
  <2>6. CASE SnapshotMeta \/ SnapshotService
    BY <2>6, SnapshotSteps
  <2>7. CASE Preflight \/ Validate
    BY <2>7, PhaseSteps
  <2>8. CASE StopOld \/ EnableRestart \/ ApplyFailed \/ Admit \/ Undo
    BY <2>8, ServiceSteps
  <2>9. CASE WriteConfig \/ WriteUnit \/ CommitPolicy \/ CommitRetained \/ CompleteActivation
    BY <2>9, ActivationWrites
  <2>10. CASE RollbackStop \/ RollbackStart
    BY <2>10, RollbackSteps
  <2>11. CASE RollbackFile
    BY <2>11, RollbackWrites
  <2>12. CASE Retire
    BY <2>12, RetireSteps
  <2>13. CASE Sync
    BY <2>13, SyncSteps
  <2> QED  BY <1>1, <2>1, <2>2, <2>3, <2>4, <2>5, <2>6, <2>7, <2>8, <2>9, <2>10, <2>11, <2>12, <2>13
           DEF Pass
<1>2. CASE InstallWorker
  BY <1>2, PrepareSteps, WorkerJournal, WorkerWrites DEF InstallWorker
<1>3. CASE Faults
  <2>1. CASE Refuse
    BY <2>1, IdleSteps
  <2>2. CASE StepFails
    BY <2>2, ServiceSteps
  <2>3. CASE RollbackFails
    BY <2>3, RollbackStopsEarly
  <2>4. CASE SyncFails
    BY <2>4, RetirementUndone
  <2>5. CASE IngressFails \/ GuardFails \/ CommitFails
    BY <2>5, PassSteps
  <2>6. CASE WorkerFails \/ WorkerKilled \/ Crash
    BY <2>6, Deaths
  <2>7. CASE Reboot
    BY <2>7, PowerLoss
  <2> QED  BY <1>3, <2>1, <2>2, <2>3, <2>4, <2>5, <2>6, <2>7 DEF Faults
<1>4. CASE \E g \in Goals : Want(g)
  BY <1>4, IdleSteps
<1>5. CASE UNCHANGED actVars
  <2>1. Control'
    BY <1>5 DEF ReleaseInv, Control, PassOK, SlotOK, Retiring, Working, Backed, Rolling, Starting,
       Written, WorkerHoldsLock, Incomplete, Unrestored, Rewriting, Retired, Committing, Bound,
       Live, Policy, Good
  <2> QED  BY <1>5, <2>1, Untouched DEF ReleaseInv, FilesOK
<1> QED  BY <1>1, <1>2, <1>3, <1>4, <1>5 DEF ActNext

(* What recovery would restore is a whole release at every moment, whatever
   the agent, the worker, a crash or a power loss have left half written
   (recovery.go, install.go), for any intents, versions, goals and
   faults: provided that no journal survives before its backups are in it. *)
THEOREM ReleaseInvariance == ASSUME BackupsAtomic, NoneIsNoRecord PROVE ActSpec => []ReleaseInv
<1>1. ActInit => ReleaseInv
  BY ReleaseInit
<1>2. ReleaseInv /\ [ActNext]_actVars => ReleaseInv'
  BY ReleaseStep
<1> QED  BY <1>1, <1>2, PTL DEF ActSpec

(* Activation implements CoreSlot: one whole release is replaced by another in
   a single step (recovery.go, installBinaryInline). *)
THEOREM ReleasesAreAtomic == ASSUME BackupsAtomic, NoneIsNoRecord PROVE ActSpec => ReleaseIsAtomic
<1>1. ActInit => Slot!SlotInit
  BY ReleaseInit
<1>2. ReleaseInv' => Slot!Replace
  BY GoodRelease DEF ReleaseInv, Slot!Replace
<1>3. ReleaseInv' => [Slot!Replace]_Recovered
  BY <1>2
<1> QED  BY <1>1, <1>3, ReleaseInvariance, PTL DEF ActSpec, ReleaseIsAtomic, Slot!SlotSpec

(* Nothing but the end of a retirement changes what recovery would restore:
   not one of the writes of an installation, an activation or a rollback, and
   no death between them (removeCoreRecovery is the only commit point). *)
OnlyRetirementReplaces == [][Recovered' # Recovered => Ending]_actVars

(* The commit point is unique (removeCoreRecovery, recovery.go). *)
THEOREM RetirementCommits == ASSUME BackupsAtomic, NoneIsNoRecord PROVE ActSpec => OnlyRetirementReplaces
<1>1. ReleaseInv /\ [ActNext]_actVars => [Recovered' # Recovered => Ending]_actVars
  BY ReleaseStep
<1> QED  BY <1>1, ReleaseInvariance, PTL DEF ActSpec, OnlyRetirementReplaces

-----------------------------------------------------------------------------
(* Services.  An activation has begun to replace the service. *)
Touched == journal # None /\ journal.phase \in {"applying", "validated"}

(* The files that the journal, if there is one, would restore. *)
Kept == IF journal = None THEN disk ELSE Over(journal.saved, disk)

(* A retirement that a power loss would undo. *)
Unconfirmed == done # None /\ ~done.synced

Processes == [bin : Versions, config : Intents, boot : BOOLEAN]
Units == [run : Processes \cup {None}, enabled : BOOLEAN]

(* The service runs what its files say, and runs if and only if it starts at
   boot. *)
Fits ==
  /\ unit.enabled <=> unit.run # None
  /\ unit.run # None => /\ unit.run.config = disk.config
                        /\ unit.run.boot \/ unit.run.bin = Kept.bin

(* The service is the one that the pass wants. *)
Serves ==
  IF Live THEN /\ unit.enabled /\ unit.run # None /\ unit.run.config = act.intent
               /\ unit.run.boot \/ unit.run.bin = disk.bin
  ELSE unit = Stopped

(* What a journal remembers of the service. *)
Remembers(j) ==
  /\ j.old \in Policies \cup {None}
  /\ j.phase \in Unfinished =>
       /\ j.units # None /\ j.units \in [active : BOOLEAN, enabled : BOOLEAN]
       /\ j.units.active <=> j.units.enabled
       /\ j.units.active => j.saved.config # None

(* Which of the saved files are still in place, by the phase; a binary that is
   replaced is marked first and restored first. *)
InPlace(j, fs) == \A f \in fs \cap DOMAIN j.saved : disk[f] = j.saved[f]

Clean(j) ==
  /\ j.phase # "validated" => InPlace(j, {"policy", "retained"})
  /\ j.phase \notin {"applying", "validated"} => InPlace(j, {"unit", "config"})
  /\ j.phase # "validated" => InPlace(j, {"bin"}) \/ disk.activate # None

Journals ==
  /\ journal # None => Remembers(journal) /\ Clean(journal)
  /\ Unconfirmed => /\ Remembers(done.j)
                    /\ done.j.phase # "validated" => InPlace(done.j, Files)
  /\ disk.unit # None => disk.config # None
  /\ Recovered.config # None => disk.config # None

PhaseKnown ==
  /\ act.pc = "preflight" => journal.phase = "preflight"
  /\ act.pc \in {"stop", "config", "unit", "restart", "check", "disable"} => journal.phase = "applying"
  /\ Committing => journal.phase = "validated"

Rolls(next) == act.pc \in {"rbStop", "rbFiles", "retire", "sync"} /\ act.next = next

Finished ==
  \/ act.pc = "sync" /\ act.next = "committed"
  \/ act.pc = "committed" /\ act.ok
  \/ act.pc = "receipt" /\ act.outcome = "new"

Settled == (Touched => act.pc = "retire" /\ act.next # "committed") => Fits

Stilled ==
  act.pc = "rbFiles" /\ StopNeeded =>
    unit.run = None /\ (unit.enabled => Touched /\ Restart /\ journal.units.enabled)

Services ==
  /\ unit \in Units /\ Settled /\ Stilled
  /\ act.pc = "check" \/ Committing \/ Finished => Serves
  /\ Finished => /\ journal = None /\ disk.policy = Policy /\ disk.retained = act.intent
                 /\ act.pc # "sync" => ~Unconfirmed

(* The outcome, and the order to stop the core, by where the pass is. *)
Outcomes ==
  /\ act.pc \in {"undo", "undone"} \/ Rolls("undone") => act.outcome = "failed"
  /\ act.pc \in {"policy", "retained", "complete", "committed"} \/ Rolls("committed")
       => act.outcome = "new"
  /\ act.pc = "receipt" => act.outcome \in {"new", "failed"}
  /\ act.stop => /\ act.outcome = "failed"
                 /\ act.pc \in {"idle", "undo", "undone", "receipt"} \/ Rolls("undone")
                 /\ act.pc = "idle" => unit.run = None
  /\ act.pc \in {"idle", "admit"} /\ act.outcome = "kept" =>
       unit.run # None /\ unit.run.config = act.intent

(* Where a pass can be while a retirement is unconfirmed. *)
Awaiting ==
  Unconfirmed =>
    \/ act.pc \in {"sync", "recover", "undo"}
    \/ act.pc = "idle" /\ (act.intent = None \/ (unit.run = None /\ applied = None))
    \/ act.pc \in {"apply", "fail", "decide"} /\ ~Live
    \/ act.pc = "admit" /\ act.outcome = "failed"
    \/ act.pc = "undone" /\ ~act.ok
    \/ act.pc = "receipt" /\ unit.run = None /\ act.outcome = "failed"

Reported ==
  /\ applied \in Goals \cup {None}
  /\ act.pc = "idle" /\ act.intent # None /\ applied # None =>
       /\ Recovered.retained = act.intent /\ Recovered.policy = Policy
       /\ IF Live THEN unit.enabled /\ unit.run # None /\ unit.run.config = act.intent
          ELSE unit = Stopped

(* The worker marks the activation before it replaces the binary. *)
Marked == slot # None /\ slot.pc = "binary" => disk.activate # None

ServiceInv == Journals /\ PhaseKnown /\ Services /\ Outcomes /\ Awaiting /\ Reported

-----------------------------------------------------------------------------
(* Nothing that the invariant speaks of has changed. *)
LEMMA NothingSeen ==
  ASSUME ServiceInv, UNCHANGED <<disk, journal, done, unit, act, applied>>
  PROVE  ServiceInv'
<1>1. Journals' /\ PhaseKnown'
  BY DEF ServiceInv, Journals, PhaseKnown, Unconfirmed, Remembers, Clean, InPlace, Committing, Retired,
     Recovered
<1>2. Services'
  BY DEF ServiceInv, Services, Settled, Stilled, StopNeeded, Restart, Touched, Fits, Kept, Committing,
     Retired, Finished, Serves, Live, Policy, Unconfirmed
<1>3. Outcomes' /\ Awaiting'
  BY DEF ServiceInv, Outcomes, Rolls, Awaiting, Unconfirmed, Live
<1>4. Reported'
  BY DEF ServiceInv, Reported, Recovered, Live, Policy
<1> QED  BY <1>1, <1>2, <1>3, <1>4 DEF ServiceInv

(* The files and what is remembered of them stay. *)
LEMMA JournalsStay ==
  ASSUME Journals, UNCHANGED <<disk, journal>>, Unconfirmed' => done' = done
  PROVE  Journals'
<1>1. Recovered' = Recovered \/ Recovered' = disk
  BY DEF Recovered, Unconfirmed
<1> QED  BY <1>1 DEF Journals, Unconfirmed, Remembers, Clean, InPlace

LEMMA SettledStays ==
  ASSUME Settled, UNCHANGED <<disk, journal, unit>>, act'.pc # "retire"
  PROVE  Settled'
  BY DEF Settled, Touched, Fits, Kept

LEMMA Stops == ASSUME unit' = Stopped PROVE unit' \in Units /\ Fits' /\ Settled'
  BY DEF Stopped, Units, Fits, Settled

(* Steps of the pass where nothing is said of service and phase. *)
Plain == {"recover", "recorded", "start", "installFailed", "apply", "snapmeta", "snapshot", "fail",
          "applyFailed", "decide", "undo", "undone", "rbStop"}

Silent ==
  \/ act.pc \in Plain \/ act.pc = "idle"
  \/ act.pc \in {"admit", "receipt"} /\ act.outcome # "new"
  \/ act.pc = "committed" /\ ~act.ok

LEMMA SilentServices ==
  ASSUME Silent', unit' \in Units, Settled'
  PROVE  PhaseKnown' /\ Services'
<1>1. /\ act'.pc \notin {"preflight", "stop", "config", "unit", "restart", "check", "disable", "policy",
                         "retained", "complete", "retire", "rbFiles", "sync"}
      /\ act'.pc \in {"admit", "receipt"} => act'.outcome # "new"
      /\ act'.pc = "committed" => ~act'.ok
  BY DEF Silent, Plain
<1>2. ~Committing' /\ ~Finished'
  BY <1>1 DEF Committing, Retired, Finished
<1> QED  BY <1>1, <1>2 DEF PhaseKnown, Services, Stilled

(* Such a step that leaves the files alone, and the service or stops it. *)
LEMMA SilentStep ==
  ASSUME ServiceInv, UNCHANGED <<disk, journal>>, Unconfirmed' => done' = done, Silent',
         unit' = unit \/ unit' = Stopped, Outcomes', Awaiting', Reported'
  PROVE  ServiceInv'
<1>1. Journals'
  BY JournalsStay DEF ServiceInv
<1>2. act'.pc # "retire"
  BY DEF Silent, Plain
<1>3. Settled' /\ unit' \in Units
  BY <1>2, SettledStays, Stops DEF ServiceInv, Services
<1>4. PhaseKnown' /\ Services'
  BY <1>3, SilentServices
<1> QED  BY <1>1, <1>4 DEF ServiceInv

LEMMA PlainStep ==
  ASSUME ServiceInv, UNCHANGED <<disk, journal, unit, applied>>, Unconfirmed' => done' = done,
         act'.pc \in Plain \/ (act'.pc = "committed" /\ ~act'.ok), Outcomes', Awaiting'
  PROVE  ServiceInv'
<1>1. Reported'
  BY DEF ServiceInv, Reported, Plain
<1> QED  BY <1>1, SilentStep DEF Silent

(* The fields of a pass that a step does not name. *)
LEMMA StepsOn ==
  ASSUME DOMAIN act = PassFields, NEW p, Go(p)
  PROVE  /\ act'.pc = p /\ act'.intent = act.intent /\ act'.version = act.version
         /\ act'.outcome = act.outcome
         /\ act'.next = act.next /\ act'.stop = act.stop /\ act'.ok = act.ok
  BY DEF Go, PassFields

LEMMA RollsOn ==
  ASSUME DOMAIN act = PassFields, NEW rp, NEW next, Rollback(rp, next)
  PROVE  /\ act'.pc = "rbStop" /\ act'.next = next /\ act'.rp = rp
         /\ act'.intent = act.intent /\ act'.outcome = act.outcome /\ act'.stop = act.stop
  BY DEF Rollback, PassFields

(* A pass that was not ordered to stop goes on to a plain step. *)
LEMMA GoesOn ==
  ASSUME Outcomes, act.pc \notin {"idle", "undo", "undone", "receipt"}, ~Rolls("undone"),
         act'.pc \in Plain \ {"undo", "undone"}, act'.pc = "rbStop" => act'.next \notin {"undone", "committed"},
         act'.stop = act.stop
  PROVE  Outcomes'
  BY DEF Outcomes, Rolls, Plain

LEMMA NoneUnconfirmed == ASSUME ReleaseInv, journal # None PROVE done = None /\ ~Unconfirmed
  BY DEF ReleaseInv, Control, Retiring, Unconfirmed

(* The pass begins, and asks for an installation. *)
LEMMA BeginsPass ==
  ASSUME ReleaseInv, ServiceInv, Converge \/ Refuse \/ Recover \/ Recorded \/ Start
  PROVE  ServiceInv'
<1>1. DOMAIN act = PassFields /\ Outcomes /\ Awaiting
  BY DEF ReleaseInv, Control, PassOK, ServiceInv
<1>2. UNCHANGED <<disk, journal, unit, applied>> /\ (done' = done \/ done' = None)
  BY DEF Converge, Refuse, Recover, Recorded, Start
<1>3. Unconfirmed' => done' = done /\ Unconfirmed
  BY <1>2 DEF Unconfirmed
<1>4. CASE Converge \/ Refuse
  <2>1. /\ act'.pc \in {"recover", "apply", "undo"} /\ act'.intent = goal.intent
        /\ act'.pc = "apply" => ~Live'
        /\ act'.stop => act'.pc = "undo"
        /\ act'.pc = "undo" => act'.outcome = "failed"
    BY <1>1, <1>4 DEF Converge, Refuse, PassFields, Live
  <2>2. Outcomes' /\ Awaiting'
    BY <2>1 DEF Outcomes, Rolls, Awaiting
  <2> QED  BY <1>2, <1>3, <2>1, <2>2, PlainStep DEF Plain
<1>5. CASE Recover \/ Recorded \/ Start
  <2>1. act.pc \in {"recover", "recorded", "start"}
    BY <1>5 DEF Recover, Recorded, Start
  <2>2. /\ act'.pc \in {"recorded", "apply", "installFailed", "start", "rbStop"}
        /\ act'.pc = "rbStop" => act'.next \in {"recorded", "start"}
        /\ act'.stop = act.stop
    BY <1>1, <1>5 DEF Recover, Recorded, Start, Go, Rollback, PassFields
  <2>3. act.pc = "recover" => done' = None
    BY <1>5 DEF Recover, Recorded, Start
  <2>4. ~Unconfirmed'
    BY <1>1, <1>3, <2>1, <2>3 DEF Awaiting, Unconfirmed
  <2>5. Outcomes'
    BY <1>1, <2>1, <2>2, GoesOn DEF Rolls, Plain
  <2> QED  BY <1>2, <1>3, <2>2, <2>4, <2>5, PlainStep DEF Plain, Awaiting
<1> QED  BY <1>4, <1>5

(* The steps of an activation and of its failure that move the pass alone. *)
LEMMA MovesPass ==
  ASSUME ReleaseInv, ServiceInv,
         \/ BeginCoreApply /\ journal # None
         \/ StepFails \/ ApplyFailed \/ Undo \/ RollbackFails \/ IngressFails \/ CommitFails
  PROVE  ServiceInv'
<1>1. DOMAIN act = PassFields /\ Outcomes /\ Awaiting
  BY DEF ReleaseInv, Control, PassOK, ServiceInv
<1>2. UNCHANGED <<disk, journal, done, unit, applied>>
  BY DEF BeginCoreApply, StepFails, ApplyFailed, Undo, RollbackFails, IngressFails, CommitFails
<1>3. Unconfirmed' <=> Unconfirmed
  BY <1>2 DEF Unconfirmed
<1>4. CASE BeginCoreApply /\ journal # None
  <2>1. act.pc = "apply" /\ ~Unconfirmed /\ (Rollback(Policy, "applyFailed") \/ Go("snapshot"))
    BY <1>4, NoneUnconfirmed DEF BeginCoreApply
  <2>2. /\ act'.pc \in {"snapshot", "rbStop"} /\ act'.stop = act.stop
        /\ act'.pc = "rbStop" => act'.next = "applyFailed"
    BY <1>1, <2>1, StepsOn, RollsOn
  <2>3. Outcomes'
    BY <1>1, <2>1, <2>2, GoesOn DEF Rolls, Plain
  <2> QED  BY <1>2, <1>3, <2>1, <2>2, <2>3, PlainStep DEF Plain, Awaiting
<1>5. CASE StepFails
  <2>1. act.pc \in ApplySteps /\ act'.pc = "fail" /\ act'.stop = act.stop /\ act'.intent = act.intent
    BY <1>1, <1>5, StepsOn DEF StepFails
  <2>2. Outcomes' /\ Awaiting'
    BY <1>1, <1>3, <2>1, GoesOn DEF ApplySteps, Rolls, Plain, Awaiting, Live
  <2> QED  BY <1>2, <2>1, <2>2, PlainStep DEF Plain
<1>6. CASE ApplyFailed
  <2>1. /\ act.pc \in {"fail", "applyFailed"} /\ act'.pc \in {"decide", "rbStop"}
        /\ act'.pc = "rbStop" => act'.next = "decide" /\ journal # None
        /\ act'.stop = act.stop /\ act'.intent = act.intent
    BY <1>1, <1>6, StepsOn, RollsOn DEF ApplyFailed
  <2>2. Outcomes'
    BY <1>1, <2>1, GoesOn DEF Rolls, Plain
  <2>3. Awaiting'
    BY <1>1, <1>3, <2>1, NoneUnconfirmed DEF Awaiting, Live
  <2> QED  BY <1>2, <2>1, <2>2, <2>3, PlainStep DEF Plain
<1>7. CASE Undo
  <2>1. act.pc = "undo" /\ act.outcome = "failed"
    BY <1>1, <1>7 DEF Undo, Outcomes
  <2>2. /\ \/ act'.pc = "rbStop" /\ act'.next = "undone" /\ journal # None
           \/ act'.pc = "undone" /\ (act'.ok => done = None)
        /\ act'.outcome = act.outcome
    BY <1>1, <1>7 DEF Undo, Rollback, PassFields
  <2>3. Outcomes'
    BY <2>1, <2>2 DEF Outcomes, Rolls
  <2>4. Awaiting'
    BY <1>3, <2>2, NoneUnconfirmed DEF Awaiting, Unconfirmed
  <2> QED  BY <1>2, <2>2, <2>3, <2>4, PlainStep DEF Plain
<1>8. CASE RollbackFails
  <2>1. /\ act.pc \in {"rbStop", "rbFiles", "retire"} /\ act.next \in Ends \cup {"committed"}
        /\ journal # None
    BY <1>8 DEF RollbackFails, ReleaseInv, Control, Rolling
  <2>2. act'.pc = act.next /\ act'.ok = FALSE /\ act'.outcome = act.outcome /\ act'.stop = act.stop
    BY <1>1, <1>8 DEF RollbackFails, PassFields
  <2>3. Outcomes'
    BY <1>1, <2>1, <2>2 DEF Outcomes, Rolls, Ends
  <2>4. ~Unconfirmed'
    BY <1>3, <2>1, NoneUnconfirmed
  <2> QED  BY <1>2, <2>1, <2>2, <2>3, <2>4, PlainStep DEF Plain, Ends, Awaiting
<1>9. CASE IngressFails \/ CommitFails
  <2>1. act'.pc = "undo" /\ act'.outcome = "failed"
    BY <1>1, <1>9 DEF IngressFails, CommitFails, PassFields
  <2>2. Outcomes' /\ Awaiting'
    BY <2>1 DEF Outcomes, Rolls, Awaiting
  <2> QED  BY <1>2, <2>1, <2>2, PlainStep DEF Plain
<1> QED  BY <1>4, <1>5, <1>6, <1>7, <1>8, <1>9

-----------------------------------------------------------------------------
(* Until the service is touched, the files that the journal would restore are
   the ones on disk, but for the binary and its marks, and they are whole. *)
LEMMA KeptFiles ==
  ASSUME ReleaseInv, Journals, ~Touched
  PROVE  /\ Good(Kept) /\ (Kept.bin # None => disk.bin # None)
         /\ \A f \in {"policy", "retained", "unit", "config"} : Kept[f] = disk[f]
<1>1. CASE journal = None
  BY <1>1, DiskIsWhole DEF Kept
<1>2. CASE journal # None
  <2>1. Kept = Recovered /\ Kept = Over(journal.saved, disk)
    BY <1>2 DEF Kept, Recovered
  <2>2. Clean(journal) /\ journal.phase \notin {"applying", "validated"}
    BY <1>2 DEF Journals, Touched
  <2>3. \A f \in {"policy", "retained", "unit", "config"} \cap DOMAIN journal.saved :
           disk[f] = journal.saved[f]
    BY <2>2 DEF Clean, InPlace
  <2>4. {"policy", "retained", "unit", "config"} \subseteq Files /\ IsBackup(journal.saved)
        /\ IsImage(disk)
    BY <1>2 DEF Files, InstallFiles, ReleaseInv, FilesOK, JournalOK
  <2>5. \A f \in {"policy", "retained", "unit", "config"} : Kept[f] = disk[f]
    BY <2>1, <2>3, <2>4, OverImage
  <2> QED  BY <2>1, <2>5 DEF ReleaseInv
<1> QED  BY <1>1, <1>2

(* A retained service serves the wanted intent: RetainedReady asks for the
   intent that was admitted, and its configuration is the one that runs. *)
LEMMA RetainedServes ==
  ASSUME ReleaseInv, ServiceInv, RetainedReady, act.pc # "retire"
  PROVE  unit.run # None /\ unit.run.config = act.intent
<1>1. /\ Live /\ disk.retained = act.intent /\ unit.run # None /\ RetainedDigest # None
  BY DEF RetainedReady
<1>2. ~Touched
  BY <1>1 DEF RetainedDigest, Touched
<1>3. Fits /\ Journals
  BY <1>2 DEF ServiceInv, Services, Settled
<1>4. Good(Kept) /\ Kept.retained = disk.retained /\ Kept.config = disk.config
  BY <1>2, <1>3, KeptFiles
<1>5. act.intent \in LiveIntents /\ act.intent # None
  BY <1>1, ActivationAssumption DEF Live
<1>6. disk.config = act.intent
  BY <1>1, <1>4, <1>5 DEF Good, Slot!Whole
<1> QED  BY <1>1, <1>3, <1>6 DEF Fits

(* What cannot be installed or applied is kept or stopped. *)
LEMMA KeepsOrStops ==
  ASSUME ReleaseInv, ServiceInv, InstallFailed \/ Decide
  PROVE  ServiceInv'
<1>1. DOMAIN act = PassFields /\ Outcomes /\ Awaiting /\ Reported
  BY DEF ReleaseInv, Control, PassOK, ServiceInv
<1>2. UNCHANGED <<disk, journal, done, applied>> /\ act.pc \in {"installFailed", "decide"}
      /\ (unit' = unit \/ unit' = Stopped)
  BY DEF InstallFailed, Decide
<1>3. /\ act'.pc = "admit" /\ act'.stop = act.stop /\ act'.intent = act.intent
      /\ \/ act'.outcome = "kept" /\ RetainedReady /\ unit' = unit
         \/ act'.outcome = "failed"
  BY <1>1 DEF InstallFailed, Decide, PassFields
<1>4. act'.outcome = "kept" => unit'.run # None /\ unit'.run.config = act'.intent
  BY <1>2, <1>3, RetainedServes
<1>5. ~act.stop
  BY <1>1, <1>2 DEF Outcomes, Rolls
<1>6. Outcomes'
  BY <1>3, <1>4, <1>5 DEF Outcomes, Rolls
<1>7. Unconfirmed' => ~Live /\ Unconfirmed
  BY <1>1, <1>2 DEF Awaiting, Unconfirmed
<1>8. Awaiting' /\ Reported'
  BY <1>1, <1>2, <1>3, <1>7 DEF Awaiting, RetainedReady, Reported
<1> QED  BY <1>2, <1>3, <1>6, <1>8, SilentStep DEF Silent

(* The decision on admission. *)
LEMMA Admits ==
  ASSUME ReleaseInv, ServiceInv, Admit
  PROVE  ServiceInv'
<1>1. DOMAIN act = PassFields /\ Outcomes /\ Awaiting /\ Services /\ PhaseKnown
      /\ act.outcome \in {"new", "kept", "failed"}
  BY DEF ReleaseInv, Control, PassOK, ServiceInv, Admit
<1>2. UNCHANGED <<disk, journal, done, unit>> /\ act.pc = "admit"
      /\ (applied' = applied \/ applied' = None)
  BY DEF Admit
<1>3. /\ act'.stop = act.stop /\ act'.intent = act.intent /\ act'.outcome = act.outcome
      /\ act'.pc = CASE act.outcome = "new" -> "policy" [] act.outcome = "kept" -> "idle"
                     [] act.outcome = "failed" -> "undo"
  BY <1>1, StepsOn DEF Admit
<1>4. ~act.stop
  BY <1>1, <1>2 DEF Outcomes, Rolls
<1>5. CASE act.outcome = "new"
  <2>1. act'.pc = "policy" /\ applied' = applied
    BY <1>3, <1>5 DEF Admit
  <2>2. Committing /\ journal # None /\ journal.phase = "validated" /\ Serves /\ ~Unconfirmed
    BY <1>1, <1>2, <1>5, NoneUnconfirmed DEF Committing, ReleaseInv, Control, Starting, PhaseKnown,
       Services
  <2>3. Journals' /\ Settled'
    BY <1>1, <1>2, <2>1, JournalsStay, SettledStays DEF ServiceInv, Services
  <2>4. PhaseKnown'
    BY <1>2, <2>1, <2>2 DEF PhaseKnown
  <2>5. Services'
    BY <1>1, <1>2, <1>3, <2>1, <2>2, <2>3 DEF Services, Stilled, Finished, Serves, Live
  <2>6. Outcomes' /\ Awaiting' /\ Reported'
    BY <1>2, <1>3, <1>4, <1>5, <2>1, <2>2 DEF Outcomes, Rolls, Awaiting, Unconfirmed, Reported, ServiceInv
  <2> QED  BY <2>3, <2>4, <2>5, <2>6 DEF ServiceInv
<1>6. CASE act.outcome = "kept"
  <2>1. act'.pc = "idle" /\ applied' = None
    BY <1>3, <1>6 DEF Admit
  <2>2. Outcomes' /\ Awaiting' /\ Reported'
    BY <1>1, <1>2, <1>3, <1>4, <1>6, <2>1 DEF Outcomes, Rolls, Awaiting, Unconfirmed, Reported
  <2> QED  BY <1>2, <2>1, <2>2, SilentStep DEF Silent
<1>7. CASE act.outcome = "failed"
  <2>1. act'.pc = "undo" /\ applied' = applied
    BY <1>3, <1>7 DEF Admit
  <2>2. Outcomes' /\ Awaiting'
    BY <1>3, <1>7, <2>1 DEF Outcomes, Rolls, Awaiting
  <2> QED  BY <1>2, <2>1, <2>2, PlainStep DEF Plain
<1> QED  BY <1>1, <1>5, <1>6, <1>7

(* An activation that is finished stays so until its receipt. *)
LEMMA StaysFinished ==
  ASSUME ServiceInv, UNCHANGED <<disk, journal, unit, applied>>, Finished, ~Unconfirmed',
         act'.intent = act.intent, act'.outcome = "new", ~act'.stop,
         \/ act'.pc = "committed" /\ act'.ok
         \/ act'.pc = "receipt"
  PROVE  ServiceInv'
<1>1. Services /\ Serves /\ journal = None /\ disk.policy = Policy /\ disk.retained = act.intent
  BY DEF ServiceInv, Services
<1>2. Journals' /\ Settled'
  BY <1>1, JournalsStay, SettledStays DEF ServiceInv, Services
<1>3. PhaseKnown' /\ ~Committing'
  BY DEF PhaseKnown, Committing, Retired
<1>4. Services'
  BY <1>1, <1>2, <1>3 DEF Services, Stilled, Serves, Live, Policy
<1>5. Outcomes' /\ Awaiting' /\ Reported'
  BY DEF Outcomes, Rolls, Awaiting, Reported, ServiceInv
<1> QED  BY <1>2, <1>3, <1>4, <1>5 DEF ServiceInv

LEMMA Confirms ==
  ASSUME ReleaseInv, ServiceInv, Sync
  PROVE  ServiceInv'
<1>1. DOMAIN act = PassFields /\ Outcomes /\ act.pc = "sync" /\ act.next \in Ends \cup {"committed"}
      /\ DOMAIN done = {"j", "synced"}
  BY DEF ReleaseInv, Control, PassOK, Rolling, Retiring, FilesOK, ServiceInv, Sync
<1>2. UNCHANGED <<disk, journal, unit, applied>> /\ ~Unconfirmed'
  BY <1>1 DEF Sync, Unconfirmed
<1>3. /\ act'.pc = act.next /\ act'.ok = TRUE /\ act'.intent = act.intent /\ act'.outcome = act.outcome
      /\ act'.stop = act.stop
  BY <1>1 DEF Sync, PassFields
<1>4. CASE act.next = "committed"
  <2>1. Finished /\ act.outcome = "new" /\ ~act.stop
    BY <1>1, <1>4 DEF Finished, Outcomes, Rolls
  <2> QED  BY <1>2, <1>3, <1>4, <2>1, StaysFinished
<1>5. CASE act.next \in Ends
  <2>1. Outcomes' /\ Awaiting'
    BY <1>1, <1>2, <1>3, <1>5 DEF Outcomes, Rolls, Awaiting, Ends
  <2> QED  BY <1>2, <1>3, <1>5, <2>1, PlainStep DEF Plain, Ends
<1> QED  BY <1>1, <1>4, <1>5

LEMMA Commits ==
  ASSUME ReleaseInv, ServiceInv, Committed
  PROVE  ServiceInv'
<1>1. DOMAIN act = PassFields /\ Outcomes /\ Services /\ Awaiting /\ act.pc = "committed"
      /\ UNCHANGED <<disk, journal, done, unit, applied>>
  BY DEF ReleaseInv, Control, PassOK, ServiceInv, Committed
<1>2. act.outcome = "new" /\ ~act.stop
  BY <1>1 DEF Outcomes, Rolls
<1>3. CASE act.ok
  <2>1. /\ act'.pc = "receipt" /\ act'.intent = act.intent /\ act'.outcome = act.outcome
        /\ act'.stop = act.stop
    BY <1>1, <1>3 DEF Committed, PassFields
  <2>2. Finished /\ ~Unconfirmed'
    BY <1>1, <1>3 DEF Finished, Services, Unconfirmed
  <2> QED  BY <1>1, <1>2, <2>1, <2>2, StaysFinished
<1>4. CASE ~act.ok
  <2>1. act'.pc = "undo" /\ act'.outcome = "failed" /\ act'.stop = act.stop
    BY <1>1, <1>4 DEF Committed, PassFields
  <2>2. Outcomes' /\ Awaiting'
    BY <1>1, <2>1 DEF Outcomes, Rolls, Awaiting
  <2> QED  BY <1>1, <2>1, <2>2, PlainStep DEF Plain
<1> QED  BY <1>3, <1>4

(* The end of a rollback, and a guard that cannot be activated. *)
LEMMA GivesUp ==
  ASSUME ReleaseInv, ServiceInv, Undone \/ GuardFails
  PROVE  ServiceInv'
<1>1. DOMAIN act = PassFields /\ Outcomes /\ Awaiting /\ Reported
      /\ UNCHANGED <<disk, journal, done, applied>>
      /\ (unit' = unit \/ unit' = Stopped)
  BY DEF ReleaseInv, Control, PassOK, ServiceInv, Undone, GuardFails
<1>2. CASE GuardFails
  <2>1. act'.pc = "undo" /\ act'.outcome = "failed"
    BY <1>1, <1>2 DEF GuardFails, PassFields
  <2>2. Outcomes' /\ Awaiting' /\ Reported'
    BY <1>1, <2>1 DEF Outcomes, Rolls, Awaiting, Reported
  <2> QED  BY <1>1, <2>1, <2>2, SilentStep DEF Silent, Plain
<1>3. CASE Undone
  <2>1. act.pc = "undone" /\ act.outcome = "failed"
    BY <1>1, <1>3 DEF Undone, Outcomes
  <2>2. /\ act'.pc \in {"undo", "receipt"} /\ act'.outcome = act.outcome
        /\ act'.pc = "receipt" => act.ok \/ unit' = Stopped
    BY <1>1, <1>3 DEF Undone, Go, PassFields
  <2>3. Outcomes' /\ Reported'
    BY <1>1, <2>1, <2>2 DEF Outcomes, Rolls, Reported
  <2>4. Awaiting'
    BY <1>1, <2>1, <2>2 DEF Awaiting, Unconfirmed, Stopped
  <2> QED  BY <1>1, <2>1, <2>2, <2>3, <2>4, SilentStep DEF Silent, Plain
<1> QED  BY <1>2, <1>3

(* The receipt: only a finished activation is reported. *)
LEMMA Receipts ==
  ASSUME ReleaseInv, ServiceInv, Receipt
  PROVE  ServiceInv'
<1>1. DOMAIN act = PassFields /\ Outcomes /\ Awaiting /\ Services /\ act.pc = "receipt"
      /\ UNCHANGED <<disk, journal, done>> /\ act.intent \in Intents /\ act.version \in Versions
  BY DEF ReleaseInv, Control, PassOK, ServiceInv, Receipt
<1>2. /\ act'.pc = "idle" /\ act'.intent = act.intent /\ act'.outcome = act.outcome
      /\ act'.stop = act.stop
  BY <1>1 DEF Receipt, Go, PassFields
<1>3. unit' = IF act.stop THEN Stopped ELSE unit
  BY DEF Receipt, AfterReceipt
<1>4. /\ applied' = None \/ applied' = [intent |-> act.intent, version |-> act.version]
      /\ act.outcome # "new" => applied' = None
  BY DEF Receipt, Ready
<1>5. applied' \in Goals \cup {None}
  BY <1>1, <1>4 DEF Goals
<1>6. act.stop => act.outcome = "failed"
  BY <1>1 DEF Outcomes
<1>7. act.stop => unit'.run = None
  BY <1>3 DEF Stopped
<1>8. Outcomes'
  BY <1>1, <1>2, <1>6, <1>7 DEF Outcomes, Rolls
<1>9. Awaiting'
  BY <1>1, <1>2, <1>3, <1>4, <1>7 DEF Awaiting, Unconfirmed
<1>10. Reported'
  <2>1. CASE act.outcome = "new"
    <3>1. Finished /\ unit' = unit
      BY <1>1, <1>3, <1>6, <2>1 DEF Finished
    <3>2. journal = None /\ disk.policy = Policy /\ disk.retained = act.intent /\ ~Unconfirmed /\ Serves
      BY <1>1, <3>1 DEF Services
    <3>3. Recovered' = disk
      BY <1>1, <3>2 DEF Recovered, Unconfirmed
    <3> QED  BY <1>1, <1>2, <1>5, <3>1, <3>2, <3>3 DEF Reported, Serves, Live, Policy
  <2>2. CASE act.outcome # "new"
    BY <1>4, <1>5, <2>2 DEF Reported
  <2> QED  BY <2>1, <2>2
<1> QED  BY <1>1, <1>2, <1>3, <1>8, <1>9, <1>10, SilentStep DEF Silent

(* The agent dies. *)
LEMMA Dies ==
  ASSUME NoneIsNoRecord, ReleaseInv, ServiceInv, Crash
  PROVE  ServiceInv'
<1>1. UNCHANGED <<disk, journal, done, unit, applied>> /\ act' = IdlePass
  BY DEF Crash
<1>2. act'.pc = "idle" /\ act'.intent = None /\ act'.outcome = None /\ act'.stop = FALSE
  BY <1>1 DEF IdlePass
<1>3. Outcomes'
  BY <1>2 DEF Outcomes, Rolls, NoneIsNoRecord
<1>4. Awaiting' /\ Reported'
  BY <1>1, <1>2 DEF Awaiting, Reported, ServiceInv
<1> QED  BY <1>1, <1>2, <1>3, <1>4, SilentStep DEF Silent

-----------------------------------------------------------------------------
(* Steps on the service itself. *)
LEMMA Unmoved ==
  ASSUME ServiceInv, UNCHANGED <<disk, journal, done, applied>>, act'.pc \notin {"idle", "undone", "sync"},
         Unconfirmed => FALSE, PhaseKnown', Services', Outcomes'
  PROVE  ServiceInv'
<1>1. Journals'
  BY JournalsStay DEF ServiceInv
<1>2. Awaiting' /\ Reported'
  BY DEF Awaiting, Unconfirmed, Reported, ServiceInv
<1> QED  BY <1>1, <1>2 DEF ServiceInv

LEMMA StopsOld ==
  ASSUME ReleaseInv, ServiceInv, StopOld
  PROVE  ServiceInv'
<1>1. DOMAIN act = PassFields /\ Outcomes /\ PhaseKnown /\ unit \in Units /\ act.pc = "stop"
      /\ UNCHANGED <<disk, journal, done, applied>> /\ unit' = [unit EXCEPT !.run = None]
  BY DEF ReleaseInv, Control, PassOK, ServiceInv, Services, StopOld
<1>2. /\ act'.pc \in {"config", "disable"} /\ act'.stop = act.stop /\ act'.outcome = act.outcome
  BY <1>1, StepsOn DEF StopOld
<1>3. journal # None /\ journal.phase = "applying" /\ ~Unconfirmed
  BY <1>1, NoneUnconfirmed DEF PhaseKnown, ReleaseInv, Control, Starting, Rewriting
<1>4. ~Committing' /\ ~Finished'
  BY <1>2 DEF Committing, Retired, Finished
<1>5. PhaseKnown'
  BY <1>1, <1>2, <1>3, <1>4 DEF PhaseKnown
<1>6. unit' \in Units
  BY <1>1 DEF Units
<1>7. Services'
  BY <1>1, <1>2, <1>3, <1>4, <1>6 DEF Services, Settled, Touched, Stilled
<1>8. Outcomes'
  BY <1>1, <1>2 DEF Outcomes, Rolls
<1> QED  BY <1>1, <1>2, <1>3, <1>5, <1>7, <1>8, Unmoved

LEMMA Restarts ==
  ASSUME NoneIsNoRecord, ReleaseInv, ServiceInv, EnableRestart
  PROVE  ServiceInv'
<1>1. DOMAIN act = PassFields /\ Outcomes /\ PhaseKnown /\ unit \in Units /\ act.pc = "restart"
      /\ UNCHANGED <<disk, journal, done, applied>>
  BY DEF ReleaseInv, Control, PassOK, ServiceInv, Services, EnableRestart
<1>2. /\ act'.pc \in {"fail", "check"} /\ act'.stop = act.stop /\ act'.intent = act.intent
      /\ act'.pc = "fail" => unit' = [unit EXCEPT !.enabled = TRUE]
      /\ act'.pc = "check" =>
           disk.bin # None
           /\ unit' = [run |-> [bin |-> disk.bin, config |-> disk.config, boot |-> FALSE], enabled |-> TRUE]
  BY <1>1 DEF EnableRestart, NoBinary, Process, Go, PassFields
<1>3. journal # None /\ journal.phase = "applying" /\ ~Unconfirmed
  BY <1>1, NoneUnconfirmed DEF PhaseKnown, ReleaseInv, Control, Starting, Rewriting
<1>4. ~Committing' /\ ~Finished'
  BY <1>2 DEF Committing, Retired, Finished
<1>5. PhaseKnown'
  BY <1>1, <1>2, <1>3, <1>4 DEF PhaseKnown
<1>6. Live /\ disk.config = act.intent /\ act.intent \in Intents
  BY <1>1 DEF ReleaseInv, Control, Written, PassOK
<1>7. disk.bin \in Versions \cup {None}
  BY DEF ReleaseInv, FilesOK, IsImage, IsBackup, Content, Files, InstallFiles
<1>8. PICK p : p = [bin |-> disk.bin, config |-> disk.config, boot |-> FALSE]
  OBVIOUS
<1>9. p.bin = disk.bin /\ p.config = disk.config /\ p # None /\ (disk.bin # None => p \in Processes)
  BY <1>6, <1>7, <1>8 DEF Processes, NoneIsNoRecord
<1>10. unit' \in Units
  <2>1. CASE act'.pc = "fail"
    BY <1>1, <1>2, <2>1 DEF Units
  <2>2. CASE act'.pc = "check"
    <3>1. unit' = [run |-> p, enabled |-> TRUE] /\ p \in Processes
      BY <1>2, <1>8, <1>9, <2>2
    <3> QED  BY <3>1 DEF Units
  <2> QED  BY <1>2, <2>1, <2>2
<1>11. act'.pc = "check" => Serves'
  BY <1>1, <1>2, <1>6, <1>8, <1>9 DEF Serves, Live
<1>12. Settled' /\ Stilled'
  BY <1>1, <1>2, <1>3 DEF Settled, Touched, Stilled
<1>13. Services'
  BY <1>4, <1>10, <1>11, <1>12 DEF Services
<1>14. Outcomes'
  BY <1>1, <1>2 DEF Outcomes, Rolls
<1> QED  BY <1>1, <1>2, <1>3, <1>5, <1>13, <1>14, Unmoved

(* A rollback fences the service before it restores a file. *)
LEMMA Fences ==
  ASSUME ReleaseInv, ServiceInv, RollbackStop
  PROVE  ServiceInv'
<1>1. DOMAIN act = PassFields /\ Outcomes /\ Services /\ unit \in Units /\ act.pc = "rbStop"
      /\ UNCHANGED <<disk, journal, done, applied>> /\ Go("rbFiles")
  BY DEF ReleaseInv, Control, PassOK, ServiceInv, Services, RollbackStop
<1>2. /\ act'.pc = "rbFiles" /\ act'.next = act.next /\ act'.stop = act.stop
      /\ act'.outcome = act.outcome /\ act'.rp = act.rp
  BY <1>1 DEF Go, PassFields
<1>3. journal # None /\ act.next \in Ends /\ ~Unconfirmed
  BY <1>1, NoneUnconfirmed DEF ReleaseInv, Control, Rolling
<1>4. ~Committing' /\ ~Finished' /\ PhaseKnown'
  BY <1>2 DEF Committing, Retired, Finished, PhaseKnown
<1>5. Touched => journal.units # None
  BY DEF Unfinished, Touched, ServiceInv, Journals, Remembers
<1>6. CASE ~StopNeeded
  <2>1. unit' = unit /\ ~StopNeeded' /\ Settled'
    BY <1>1, <1>2, <1>6, SettledStays DEF RollbackStop, StopNeeded, Restart, Services
  <2>2. Services'
    BY <1>1, <1>4, <1>2, <2>1 DEF Services, Stilled
  <2>3. Outcomes'
    BY <1>1, <1>2, <2>1 DEF Outcomes, Rolls
  <2> QED  BY <1>1, <1>2, <1>3, <1>4, <2>2, <2>3, Unmoved
<1>7. CASE StopNeeded
  <2>1. PICK e \in BOOLEAN : e <=> Restart /\ unit.enabled /\ (journal.units # None => journal.units.enabled)
    OBVIOUS
  <2>2. unit' = [run |-> None,
                 enabled |-> /\ Restart /\ unit.enabled
                             /\ journal.units # None => journal.units.enabled]
    BY <1>7 DEF RollbackStop
  <2>3. unit'.run = None /\ (unit'.enabled <=> e) /\ unit' \in Units
    BY <2>1, <2>2 DEF Units
  <2>4. ~Touched => ~Restart
    BY <1>3, <1>7 DEF StopNeeded, Touched
  <2>5. unit'.enabled => Touched /\ Restart /\ journal.units.enabled
    BY <1>5, <2>1, <2>3, <2>4 DEF Touched, Unfinished
  <2>6. Stilled'
    BY <1>1, <1>2, <2>3, <2>5 DEF Stilled, Touched, Restart
  <2>7. Settled'
    BY <1>1, <1>2, <2>3, <2>5 DEF Settled, Touched, Fits
  <2>8. Services'
    BY <1>2, <1>4, <2>3, <2>6, <2>7 DEF Services
  <2>9. Outcomes'
    BY <1>1, <1>2 DEF Outcomes, Rolls
  <2> QED  BY <1>1, <1>2, <1>3, <1>4, <2>8, <2>9, Unmoved
<1> QED  BY <1>6, <1>7

(* The files have been restored: what the journal would restore is there. *)
LEMMA AllRestored ==
  ASSUME ReleaseInv, journal # None, Unrestored = {}
  PROVE  Kept = disk /\ Good(disk) /\ \A f \in DOMAIN journal.saved : disk[f] = journal.saved[f]
<1>1. \A f \in DOMAIN journal.saved : disk[f] = journal.saved[f]
  BY DEF Unrestored
<1>2. IsBackup(journal.saved) /\ IsImage(disk)
  BY DEF ReleaseInv, FilesOK, JournalOK
<1>3. Kept = disk /\ Kept = Recovered
  BY <1>1, <1>2, OverRestored DEF Kept, Recovered
<1> QED  BY <1>1, <1>3 DEF ReleaseInv

LEMMA DiskContents ==
  ASSUME ReleaseInv
  PROVE  disk.bin \in Versions \cup {None} /\ disk.config \in Intents \cup {None}
         /\ disk.unit \in Intents \cup {None} /\ disk.policy \in Policies \cup {None}
  BY DEF ReleaseInv, FilesOK, IsImage, IsBackup, Content, Files, InstallFiles

(* The service starts again from the restored files, if it was running and
   its authorization is still the wanted one. *)
LEMMA StartedAgain ==
  ASSUME NoneIsNoRecord, ReleaseInv, ServiceInv, journal # None, Unrestored = {}, Touched,
         unit.run = None, unit.enabled => journal.units.enabled,
         UNCHANGED <<disk, journal>>,
         unit' = [run |-> IF journal.units.active THEN Process(FALSE) ELSE unit.run,
                  enabled |-> unit.enabled \/ journal.units.enabled]
  PROVE  unit' \in Units /\ Fits'
<1>1. Kept = disk /\ Good(disk) /\ \A f \in DOMAIN journal.saved : disk[f] = journal.saved[f]
  BY AllRestored
<1>2. Kept' = disk
  BY <1>1 DEF Kept
<1>3. /\ journal.units \in [active : BOOLEAN, enabled : BOOLEAN]
      /\ journal.units.active <=> journal.units.enabled
      /\ journal.units.active => journal.saved.config # None
      /\ "config" \in DOMAIN journal.saved
  BY DEF ServiceInv, Journals, Remembers, Touched, Unfinished, ReleaseInv, FilesOK, JournalOK
<1>4. unit.enabled \in BOOLEAN
  BY DEF ServiceInv, Services, Units
<1>5. CASE journal.units.active
  <2>1. PICK p : p = [bin |-> disk.bin, config |-> disk.config, boot |-> FALSE]
    OBVIOUS
  <2>2. disk.config # None /\ disk.bin # None
    BY <1>1, <1>3, <1>5 DEF Good, Slot!Whole
  <2>3. p.bin = disk.bin /\ p.config = disk.config /\ p # None /\ p \in Processes
    BY <2>1, <2>2, DiskContents DEF Processes, NoneIsNoRecord
  <2>4. unit' = [run |-> p, enabled |-> TRUE]
    <3>1. PICK e : e = (unit.enabled \/ journal.units.enabled)
      OBVIOUS
    <3>2. e = TRUE
      BY <1>3, <1>5, <3>1
    <3>3. PICK r : r = IF journal.units.active THEN Process(FALSE) ELSE unit.run
      OBVIOUS
    <3>4. r = p
      BY <1>5, <2>1, <3>3 DEF Process
    <3>5. unit' = [run |-> r, enabled |-> e]
      BY <3>1, <3>3, Zenon
    <3> QED  BY <3>2, <3>4, <3>5
  <2>5. unit' \in Units /\ unit'.run = p /\ unit'.enabled = TRUE
    BY ONLY <2>4, <2>3 DEF Units
  <2> QED  BY <1>2, <2>3, <2>5 DEF Fits
<1>6. CASE ~journal.units.active
  <2>1. unit' = Stopped
    BY <1>3, <1>4, <1>6 DEF Stopped
  <2> QED  BY <2>1, Stops
<1> QED  BY <1>5, <1>6

LEMMA StartsAgain ==
  ASSUME NoneIsNoRecord, ReleaseInv, ServiceInv, RollbackStart
  PROVE  ServiceInv'
<1>1. DOMAIN act = PassFields /\ Outcomes /\ Services /\ unit \in Units /\ act.pc = "rbFiles"
      /\ UNCHANGED <<disk, journal, done, applied>> /\ Go("retire") /\ Unrestored = {}
  BY DEF ReleaseInv, Control, PassOK, ServiceInv, Services, RollbackStart
<1>2. /\ act'.pc = "retire" /\ act'.next = act.next /\ act'.stop = act.stop
      /\ act'.outcome = act.outcome
  BY <1>1, StepsOn
<1>3. journal # None /\ act.next \in Ends /\ ~Unconfirmed
  BY <1>1, NoneUnconfirmed DEF ReleaseInv, Control, Rolling
<1>4. ~Committing' /\ ~Finished' /\ PhaseKnown'
  BY <1>2, <1>3 DEF Committing, Retired, Finished, PhaseKnown, Ends
<1>5. /\ Touched => StopNeeded /\ journal.units # None
      /\ StopNeeded => unit.run = None /\ (unit.enabled => Touched /\ Restart /\ journal.units.enabled)
  BY <1>1, <1>3 DEF StopNeeded, Touched, Unfinished, ServiceInv, Journals, Remembers, Services, Stilled
<1>6. unit' \in Units /\ Fits'
  <2>1. CASE StopNeeded /\ Restart /\ journal.units # None
    <3>1. Touched
      BY <1>3, <2>1 DEF StopNeeded, Touched
    <3>2. unit' = [run |-> IF journal.units.active THEN Process(FALSE) ELSE unit.run,
                   enabled |-> unit.enabled \/ journal.units.enabled]
      BY <2>1 DEF RollbackStart
    <3> QED  BY <1>1, <1>3, <1>5, <2>1, <3>1, <3>2, StartedAgain
  <2>2. CASE ~(StopNeeded /\ Restart /\ journal.units # None)
    <3>1. unit' = unit /\ Kept' = Kept
      BY <1>1, <2>2 DEF RollbackStart, Kept
    <3>2. Fits
      <4>1. CASE StopNeeded
        BY <1>1, <1>5, <2>2, <4>1 DEF Fits, Units
      <4>2. CASE ~StopNeeded
        BY <1>1, <1>5, <4>2 DEF Services, Settled
      <4> QED  BY <4>1, <4>2
    <3> QED  BY <1>1, <3>1, <3>2 DEF Fits
  <2> QED  BY <2>1, <2>2
<1>7. Services'
  BY <1>2, <1>4, <1>6 DEF Services, Settled, Stilled
<1>8. Outcomes'
  BY <1>1, <1>2, <1>3 DEF Outcomes, Rolls, Ends
<1> QED  BY <1>1, <1>2, <1>3, <1>4, <1>7, <1>8, Unmoved

-----------------------------------------------------------------------------
(* The journal is retired, or comes back. *)
LEMMA Retires ==
  ASSUME NoneIsNoRecord, ReleaseInv, ServiceInv, Retire
  PROVE  ServiceInv'
<1>1. DOMAIN act = PassFields /\ Outcomes /\ Services /\ Journals /\ unit \in Units /\ act.pc = "retire"
      /\ UNCHANGED <<disk, unit, applied>> /\ Go("sync")
      /\ journal' = None /\ done' = [j |-> journal, synced |-> FALSE]
  BY DEF ReleaseInv, Control, PassOK, ServiceInv, Services, Retire
<1>2. /\ act'.pc = "sync" /\ act'.next = act.next /\ act'.stop = act.stop
      /\ act'.outcome = act.outcome /\ act'.intent = act.intent
  BY <1>1, StepsOn
<1>3. journal # None /\ act.next \in Ends \cup {"committed"}
      /\ (act.next # "committed" => Unrestored = {})
  BY <1>1 DEF ReleaseInv, Control, Rolling
<1>4. done'.j = journal /\ DOMAIN journal.saved \subseteq Files
  BY <1>1, <1>3 DEF ReleaseInv, FilesOK, JournalOK, IsBackup
<1>5. act.next = "committed" =>
        /\ journal.phase = "validated" /\ Serves
        /\ disk.policy = Policy /\ disk.retained = act.intent
        /\ Live => disk.config = act.intent
  BY <1>1 DEF Committing, Retired, ServiceInv, PhaseKnown, Services, ReleaseInv, Control, Written
<1>6. Journals'
  <2>1. Remembers(journal)
    BY <1>1, <1>3 DEF Journals
  <2>2. journal.phase # "validated" => \A f \in DOMAIN journal.saved : disk[f] = journal.saved[f]
    BY <1>3, <1>5, AllRestored
  <2>3. Remembers(done.j)'
    BY <1>4, <2>1 DEF Remembers
  <2>4. (done.j.phase # "validated" => InPlace(done.j, Files))'
    BY <1>1, <1>4, <2>2 DEF InPlace
  <2>5. Recovered' = Recovered
    BY RetireSteps
  <2> QED  BY <1>1, <2>3, <2>4, <2>5 DEF Journals
<1>7. PhaseKnown' /\ ~Committing'
  BY <1>2 DEF PhaseKnown, Committing, Retired
<1>8. Kept' = disk
  BY <1>1 DEF Kept
<1>9. Fits'
  <2>1. CASE act.next = "committed"
    <3>1. CASE Live
      BY <1>1, <1>5, <1>8, <2>1, <3>1 DEF Fits, Serves
    <3>2. CASE ~Live
      BY <1>1, <1>5, <2>1, <3>2, Stops DEF Serves
    <3> QED  BY <3>1, <3>2
  <2>2. CASE act.next # "committed"
    <3>1. Fits /\ Kept = disk
      BY <1>1, <1>3, <2>2, AllRestored DEF Services, Settled
    <3> QED  BY <1>1, <1>8, <3>1 DEF Fits
  <2> QED  BY <2>1, <2>2
<1>10. Finished' => act.next = "committed"
  BY <1>2 DEF Finished
<1>11. Services'
  BY <1>1, <1>2, <1>5, <1>7, <1>9, <1>10 DEF Services, Settled, Stilled, Serves, Live, Policy
<1>12. Outcomes' /\ Awaiting' /\ Reported'
  BY <1>1, <1>2 DEF Outcomes, Rolls, Awaiting, Reported, ServiceInv
<1> QED  BY <1>6, <1>7, <1>11, <1>12 DEF ServiceInv

LEMMA JournalBack ==
  ASSUME ReleaseInv, Journals, Unconfirmed, journal' = done.j, done' = None, disk' = disk
  PROVE  Journals' /\ journal = None /\ (~Touched' => Kept' = disk)
<1>1. /\ done.j # None /\ JournalOK(done.j) /\ IsBackup(done.j.saved) /\ IsImage(disk)
      /\ DOMAIN done.j.saved \subseteq Files /\ journal = None
  BY DEF ReleaseInv, FilesOK, JournalOK, IsBackup, Unconfirmed, Control, Retiring
<1>2. Remembers(done.j) /\ (done.j.phase # "validated" => InPlace(done.j, Files))
  BY DEF Journals
<1>3. done.j.phase # "validated" => \A f \in DOMAIN done.j.saved : disk[f] = done.j.saved[f]
  BY <1>1, <1>2 DEF InPlace
<1>4. Remembers(journal)' /\ Clean(journal)'
  BY <1>2, <1>3 DEF Remembers, Clean, InPlace
<1>5. Journals'
  <2>1. Recovered' = Recovered
    BY <1>1 DEF Recovered, Unconfirmed
  <2> QED  BY <1>4, <2>1 DEF Journals, Unconfirmed
<1>6. done.j.phase # "validated" => Over(done.j.saved, disk) = disk
  BY <1>1, <1>3, OverRestored
<1>7. ~Touched' => Kept' = disk
  BY <1>1, <1>6 DEF Touched, Kept
<1> QED  BY <1>1, <1>5, <1>7

LEMMA NotRetired ==
  ASSUME ReleaseInv, ServiceInv, SyncFails
  PROVE  ServiceInv'
<1>1. DOMAIN act = PassFields /\ Outcomes /\ Services /\ Journals /\ unit \in Units /\ act.pc = "sync"
      /\ UNCHANGED <<disk, unit, applied>> /\ journal' = done.j /\ done' = None
  BY DEF ReleaseInv, Control, PassOK, ServiceInv, Services, SyncFails
<1>2. Unconfirmed /\ act.next \in Ends \cup {"committed"}
  BY <1>1 DEF ReleaseInv, Control, Retiring, Rolling, Unconfirmed
<1>3. /\ act'.pc = act.next /\ act'.stop = act.stop /\ act'.ok = FALSE
      /\ act'.outcome = act.outcome /\ act'.intent = act.intent
  BY <1>1 DEF SyncFails, PassFields
<1>4. Journals' /\ journal = None /\ (~Touched' => Kept' = disk)
  BY <1>1, <1>2, JournalBack
<1>5. Fits /\ Kept = disk
  BY <1>1, <1>4 DEF Services, Settled, Touched, Kept
<1>6. act'.pc # "retire"
  BY <1>2, <1>3 DEF Ends
<1>7. Settled'
  BY <1>1, <1>4, <1>5, <1>6 DEF Settled, Fits
<1>8. Silent'
  BY <1>2, <1>3 DEF Silent, Plain, Ends
<1>9. PhaseKnown' /\ Services'
  BY <1>1, <1>7, <1>8, SilentServices
<1>10. Outcomes'
  BY <1>1, <1>2, <1>3 DEF Outcomes, Rolls, Ends
<1>11. Awaiting' /\ Reported'
  BY <1>1, <1>2, <1>3 DEF Awaiting, Unconfirmed, Reported, ServiceInv, Ends
<1> QED  BY <1>4, <1>9, <1>10, <1>11 DEF ServiceInv

(* A power loss: what starts at boot is what the files say. *)
LEMMA Boots ==
  ASSUME NoneIsNoRecord, ReleaseInv, ServiceInv, Reboot
  PROVE  ServiceInv'
<1>1. Services /\ Journals /\ unit \in Units /\ UNCHANGED <<disk, applied>> /\ act' = IdlePass
      /\ unit' = [unit EXCEPT !.run = IF unit.enabled /\ disk.unit # None /\ disk.bin # None
                                      THEN Process(TRUE) ELSE None]
      /\ \/ UNCHANGED <<journal, done>>
         \/ Unconfirmed /\ journal' = done.j /\ done' = None
  BY DEF ServiceInv, Services, Reboot, Unconfirmed
<1>2. act'.pc = "idle" /\ act'.intent = None /\ act'.outcome = None /\ act'.stop = FALSE
  BY <1>1 DEF IdlePass
<1>3. PICK p : p = [bin |-> disk.bin, config |-> disk.config, boot |-> TRUE]
  OBVIOUS
<1>4. /\ p.config = disk.config /\ p.boot = TRUE /\ p # None
      /\ disk.unit # None /\ disk.bin # None => p \in Processes
  BY <1>1, <1>3, DiskContents DEF Processes, NoneIsNoRecord, Journals
<1>5. unit'.run = (IF unit.enabled /\ disk.unit # None /\ disk.bin # None THEN p ELSE None)
      /\ unit'.enabled = unit.enabled
  BY <1>1, <1>3 DEF Process, Units
<1> HIDE <1>3
<1>6. unit' \in Units
  <2>1. PICK r : r = IF unit.enabled /\ disk.unit # None /\ disk.bin # None THEN p ELSE None
    OBVIOUS
  <2>2. r \in Processes \cup {None} /\ unit' = [unit EXCEPT !.run = r]
    BY <1>1, <1>4, <1>5, <2>1 DEF Units
  <2> QED  BY <1>1, <2>2 DEF Units
<1>7. ~Touched => Fits'
  <2> SUFFICES ASSUME ~Touched PROVE Fits'
    OBVIOUS
  <2>1. Fits
    BY <1>1 DEF Services, Settled
  <2>2. Good(Kept) /\ (Kept.bin # None => disk.bin # None) /\ Kept.unit = disk.unit
        /\ Kept.config = disk.config
    BY <1>1, KeptFiles
  <2>3. unit.enabled => disk.config \in Intents
    BY <1>1, <2>1 DEF Fits, Units, Processes
  <2>4. unit.enabled => disk.unit # None /\ disk.bin # None
    BY <2>2, <2>3, ActivationAssumption DEF Good, Slot!Whole
  <2> QED  BY <1>1, <1>4, <1>5, <2>4 DEF Fits
<1>8. Journals'
  BY <1>1, JournalsStay, JournalBack
<1>9. Touched => Touched'
  BY <1>1, NoneUnconfirmed DEF Touched
<1>10. Settled'
  BY <1>2, <1>7, <1>9 DEF Settled
<1>11. PhaseKnown' /\ Services'
  BY <1>2, <1>6, <1>10, SilentServices DEF Silent
<1>12. Outcomes' /\ Awaiting' /\ Reported'
  BY <1>1, <1>2 DEF Outcomes, Rolls, NoneIsNoRecord, Awaiting, Reported, ServiceInv
<1> QED  BY <1>8, <1>11, <1>12 DEF ServiceInv

-----------------------------------------------------------------------------
(* The journal is written. *)
LEMMA Journaled ==
  ASSUME ReleaseInv, ServiceInv, journal # None, UNCHANGED <<done, applied>>, act'.pc # "idle",
         Journals', PhaseKnown', Services', Outcomes'
  PROVE  ServiceInv'
<1>1. ~Unconfirmed'
  BY NoneUnconfirmed DEF Unconfirmed
<1>2. Awaiting' /\ Reported'
  BY <1>1 DEF Awaiting, Reported, ServiceInv
<1> QED  BY <1>2 DEF ServiceInv

(* A service that is left alone fits as before while what is kept, and its
   configuration, stay. *)
LEMMA FitsStill ==
  ASSUME Fits, unit' = unit, Kept' = Kept, disk'.config = disk.config
  PROVE  Fits'
  BY DEF Fits

LEMMA NewJournals ==
  ASSUME NoneIsNoRecord, ReleaseInv, ServiceInv, journal = None, UNCHANGED <<disk, unit>>, done' = None,
         NEW phase \in {"installing", "installed"}, journal' = NewJournal(phase)
  PROVE  Journals' /\ unit' \in Units /\ Settled' /\ ~Unconfirmed'
<1>1. DOMAIN journal' = JournalFields /\ journal'.phase = phase /\ DOMAIN journal'.saved = {}
      /\ journal'.old = disk.policy
  BY DEF NewJournal, JournalFields
<1>2. journal' # None /\ IsImage(disk)
  BY <1>1, DiskIsWhole DEF NoneIsNoRecord
<1>3. Over(journal'.saved, disk) = disk
  BY <1>1, <1>2, OverEmpty
<1>4. Kept' = disk /\ Recovered' = disk /\ Kept = disk
  BY <1>2, <1>3 DEF Kept, Recovered
<1>5. Remembers(journal)' /\ Clean(journal)'
  BY <1>1, DiskContents DEF Remembers, Clean, InPlace, Unfinished
<1>6. Journals' /\ ~Unconfirmed'
  BY <1>4, <1>5 DEF ServiceInv, Journals, Unconfirmed
<1>7. Fits /\ unit \in Units
  BY DEF ServiceInv, Services, Settled, Touched
<1>8. Settled'
  BY <1>4, <1>7, FitsStill DEF Settled
<1> QED  BY <1>6, <1>7, <1>8

LEMMA BeginsJournal ==
  ASSUME NoneIsNoRecord, ReleaseInv, ServiceInv, BeginCoreApply, journal = None
  PROVE  ServiceInv'
<1>1. DOMAIN act = PassFields /\ Outcomes /\ act.pc = "apply" /\ UNCHANGED <<disk, unit, applied>>
      /\ journal' = NewJournal("installed") /\ done' = None /\ Go("snapmeta")
  BY DEF ReleaseInv, Control, PassOK, ServiceInv, BeginCoreApply
<1>2. act'.pc = "snapmeta" /\ act'.stop = act.stop
  BY <1>1, StepsOn
<1>3. Journals' /\ unit' \in Units /\ Settled' /\ ~Unconfirmed'
  BY <1>1, NewJournals
<1>4. PhaseKnown' /\ Services'
  BY <1>2, <1>3, SilentServices DEF Silent, Plain
<1>5. Outcomes'
  BY <1>1, <1>2, GoesOn DEF Rolls, Plain
<1>6. Awaiting' /\ Reported'
  BY <1>1, <1>2, <1>3 DEF Awaiting, Reported, ServiceInv
<1> QED  BY <1>3, <1>4, <1>5, <1>6 DEF ServiceInv

(* The worker begins while the agent is idle. *)
LEMMA IdleReports ==
  ASSUME ServiceInv, act.pc = "idle", UNCHANGED <<act, unit, applied>>, Recovered' = Recovered \/ Ending
  PROVE  Reported'
<1>1. Ending => act.intent = None \/ applied = None
  BY DEF ServiceInv, Awaiting, Unconfirmed, Ending
<1> QED  BY <1>1 DEF Reported, ServiceInv, Live, Policy

LEMMA Prepares ==
  ASSUME NoneIsNoRecord, ReleaseInv, ServiceInv, Prepare
  PROVE  ServiceInv'
<1>1. act.pc = "idle" /\ UNCHANGED <<disk, unit, act, applied>> /\ Outcomes
  BY DEF Prepare, ServiceInv
<1>2. CASE journal # None
  BY <1>1, <1>2, NothingSeen DEF Prepare
<1>3. CASE journal = None
  <2>1. journal' = NewJournal("installing") /\ done' = None
    BY <1>3 DEF Prepare
  <2>2. Journals' /\ unit' \in Units /\ Settled' /\ ~Unconfirmed'
    BY <1>1, <1>3, <2>1, NewJournals
  <2>3. PhaseKnown' /\ Services'
    BY <1>1, <2>2, SilentServices DEF Silent
  <2>4. Reported'
    BY <1>1, PrepareSteps, IdleReports
  <2>5. Outcomes' /\ Awaiting'
    BY <1>1, <2>2 DEF Outcomes, Rolls, Awaiting
  <2> QED  BY <2>2, <2>3, <2>4, <2>5 DEF ServiceInv
<1> QED  BY <1>2, <1>3

(* A backup of a file that has none is the file. *)
LEMMA SaveInPlace ==
  ASSUME ReleaseInv, journal # None, disk' = disk, NEW fs, fs \subseteq Files, journal'.saved = Save(fs)
  PROVE  /\ \A f \in DOMAIN journal'.saved :
               journal'.saved[f] = IF f \in DOMAIN journal.saved THEN journal.saved[f] ELSE disk[f]
         /\ \A X : InPlace(journal, X) => InPlace(journal, X)'
         /\ DOMAIN journal'.saved = DOMAIN journal.saved \cup fs
<1>1. DOMAIN journal'.saved = DOMAIN journal.saved \cup fs
  BY DEF Save, Over
<1>2. \A f \in DOMAIN journal'.saved :
         journal'.saved[f] = IF f \in DOMAIN journal.saved THEN journal.saved[f] ELSE disk[f]
  BY <1>1 DEF Save, Over
<1>3. \A X : InPlace(journal, X) => InPlace(journal, X)'
  BY <1>2 DEF InPlace
<1> QED  BY <1>1, <1>2, <1>3

LEMMA Snapshots ==
  ASSUME NoneIsNoRecord, ReleaseInv, ServiceInv, SnapshotMeta \/ SnapshotService
  PROVE  ServiceInv'
<1>1. DOMAIN act = PassFields /\ Outcomes /\ Services /\ Journals
      /\ UNCHANGED <<disk, done, unit, applied>> /\ act.pc \in {"snapmeta", "snapshot"}
  BY DEF ReleaseInv, Control, PassOK, ServiceInv, SnapshotMeta, SnapshotService
<1>2. journal # None /\ journal.phase \notin Unfinished /\ DOMAIN journal = JournalFields
      /\ DOMAIN journal.saved \subseteq InstallFiles
  BY <1>1 DEF ReleaseInv, Control, Starting, FilesOK, JournalOK
<1>3. Remembers(journal) /\ Clean(journal) /\ ~Touched /\ done = None
  BY <1>1, <1>2, NoneUnconfirmed DEF Journals, Touched, Unfinished
<1>4. Recovered' = Recovered /\ Fits /\ unit \in Units
  BY <1>1, <1>3, SnapshotSteps DEF Services, Settled
<1>5. Kept' = Kept
  BY <1>1, <1>3, <1>4 DEF Kept, Recovered
<1>6. Fits'
  BY <1>1, <1>4, <1>5, FitsStill
<1>7. ~act.stop
  BY <1>1 DEF Outcomes, Rolls
<1>8. CASE SnapshotMeta
  <2>1. act'.pc = "snapshot" /\ act'.stop = act.stop
    BY <1>1, <1>8, StepsOn DEF SnapshotMeta
  <2>2. journal'.phase = journal.phase /\ journal'.old = journal.old /\ journal'.saved = Save(ApplyFiles)
    BY <1>2, <1>8 DEF SnapshotMeta, JournalFields
  <2>3. ApplyFiles \subseteq Files
    BY DEF ApplyFiles, Files, InstallFiles
  <2>4. \A X : InPlace(journal, X) => InPlace(journal, X)'
    BY <1>1, <1>2, <2>2, <2>3, SaveInPlace
  <2>5. Remembers(journal)' /\ Clean(journal)'
    BY <1>1, <1>2, <1>3, <2>2, <2>4 DEF Remembers, Clean
  <2>6. Journals'
    BY <1>1, <1>3, <1>4, <2>5 DEF Journals, Unconfirmed
  <2>7. PhaseKnown' /\ Services'
    BY <1>1, <1>4, <1>6, <2>1, SilentServices DEF Silent, Plain, Settled
  <2>8. Outcomes'
    BY <1>7, <2>1 DEF Outcomes, Rolls
  <2> QED  BY <1>1, <1>2, <2>1, <2>6, <2>7, <2>8, Journaled
<1>9. CASE SnapshotService
  <2>1. act'.pc = "preflight" /\ act'.stop = act.stop
    BY <1>1, <1>9, StepsOn DEF SnapshotService
  <2>2. /\ journal'.phase = "preflight" /\ journal'.old = journal.old
        /\ journal'.saved = Save({"unit", "config"})
        /\ journal'.units = [active |-> unit.run # None, enabled |-> unit.enabled]
    BY <1>2, <1>9 DEF SnapshotService, JournalFields
  <2>3. {"unit", "config"} \subseteq Files /\ {"unit", "config"} \cap InstallFiles = {}
    BY DEF Files, InstallFiles
  <2>4. /\ \A X : InPlace(journal, X) => InPlace(journal, X)'
        /\ DOMAIN journal'.saved = DOMAIN journal.saved \cup {"unit", "config"}
        /\ \A f \in DOMAIN journal'.saved :
              journal'.saved[f] = IF f \in DOMAIN journal.saved THEN journal.saved[f] ELSE disk[f]
    BY <1>1, <1>2, <2>2, <2>3, SaveInPlace
  <2>5. journal'.saved.config = disk.config /\ InPlace(journal, {"unit", "config"})
    BY <1>2, <2>3, <2>4 DEF InPlace
  <2>6. unit.enabled \in BOOLEAN /\ (unit.run # None => disk.config \in Intents)
    BY <1>4 DEF Units, Processes, Fits
  <2>7. /\ journal'.units # None /\ journal'.units \in [active : BOOLEAN, enabled : BOOLEAN]
        /\ journal'.units.active <=> unit.run # None
        /\ journal'.units.enabled <=> unit.enabled
    <3>1. PICK a \in BOOLEAN : a = (unit.run # None)
      OBVIOUS
    <3>2. journal'.units = [active |-> a, enabled |-> unit.enabled]
      BY <2>2, <3>1, Zenon
    <3>3. journal'.units \in [active : BOOLEAN, enabled : BOOLEAN] /\ journal'.units # None
          /\ journal'.units.active = a /\ journal'.units.enabled = unit.enabled
      BY <2>6, <3>2 DEF NoneIsNoRecord
    <3> QED  BY <3>1, <3>3
  <2>8. Remembers(journal)'
    BY <1>3, <1>4, <2>2, <2>5, <2>6, <2>7, ActivationAssumption DEF Remembers, Fits
  <2>9. Clean(journal)'
    BY <1>1, <1>2, <1>3, <2>2, <2>4, <2>5 DEF Clean, Unfinished
  <2>10. Journals'
    BY <1>1, <1>3, <1>4, <2>8, <2>9 DEF Journals, Unconfirmed
  <2>11. ~Committing' /\ ~Finished' /\ PhaseKnown'
    BY <2>1, <2>2 DEF Committing, Retired, Finished, PhaseKnown
  <2>12. Services'
    BY <1>1, <1>4, <1>6, <2>1, <2>11 DEF Services, Settled, Stilled
  <2>13. Outcomes'
    BY <1>7, <2>1 DEF Outcomes, Rolls
  <2> QED  BY <1>1, <1>2, <2>1, <2>10, <2>11, <2>12, <2>13, Journaled
<1> QED  BY <1>8, <1>9

(* A service that needs no change is the wanted one already. *)
LEMMA Unchanged ==
  ASSUME ReleaseInv, ServiceInv, act.pc = "preflight", ~Changed
  PROVE  Serves
<1>1. /\ disk.activate = None
      /\ Live => disk.config = act.intent /\ unit.run # None
      /\ ~Live => unit.run = None
  BY DEF Changed
<1>2. journal # None /\ journal.phase = "preflight" /\ Clean(journal)
  BY DEF ServiceInv, PhaseKnown, Journals, ReleaseInv, Control, Starting, Rewriting
<1>3. Fits /\ unit \in Units
  BY <1>2 DEF ServiceInv, Services, Settled, Touched
<1>4. Kept.bin = disk.bin
  <2>1. InPlace(journal, {"bin"})
    BY <1>1, <1>2 DEF Clean
  <2>2. Kept = Over(journal.saved, disk) /\ IsBackup(journal.saved) /\ IsImage(disk) /\ "bin" \in Files
    BY <1>2 DEF Kept, ReleaseInv, FilesOK, JournalOK, Files, InstallFiles
  <2> QED  BY <2>1, <2>2, OverImage DEF InPlace
<1>5. CASE Live
  BY <1>1, <1>3, <1>4, <1>5 DEF Serves, Fits
<1>6. CASE ~Live
  <2>1. unit.run = None /\ unit.enabled = FALSE
    BY <1>1, <1>3, <1>6 DEF Fits, Units
  <2>2. unit = Stopped
    BY <1>3, <2>1 DEF Units, Stopped
  <2> QED  BY <1>6, <2>2 DEF Serves
<1> QED  BY <1>5, <1>6

LEMMA Phased ==
  ASSUME NoneIsNoRecord, ReleaseInv, ServiceInv, Preflight \/ Validate
  PROVE  ServiceInv'
<1>1. DOMAIN act = PassFields /\ Outcomes /\ Services /\ Journals /\ PhaseKnown
      /\ UNCHANGED <<disk, done, applied>> /\ act.pc \in {"preflight", "check", "disable"}
  BY DEF ReleaseInv, Control, PassOK, ServiceInv, Preflight, Validate
<1>2. journal # None /\ journal.phase \in {"preflight", "applying"} /\ DOMAIN journal = JournalFields
      /\ Remembers(journal) /\ Clean(journal) /\ done = None
  BY <1>1, NoneUnconfirmed DEF ReleaseInv, Control, Starting, Rewriting, FilesOK, JournalOK, PhaseKnown,
     Journals
<1>3. /\ journal'.phase \in {"applying", "validated"} /\ journal'.saved = journal.saved
      /\ journal'.old = journal.old /\ journal'.units = journal.units
      /\ \/ act'.pc = "stop" /\ journal'.phase = "applying" /\ unit' = unit
         \/ /\ act'.pc = "admit" /\ act'.outcome = "new" /\ journal'.phase = "validated"
            /\ \/ act.pc = "preflight" /\ ~Changed /\ unit' = unit
               \/ act.pc = "check" /\ unit' = unit
               \/ act.pc = "disable" /\ unit' = Stopped
      /\ act'.intent = act.intent /\ act'.stop = act.stop
  BY <1>1, <1>2 DEF Preflight, Validate, Go, PassFields, JournalFields
<1>4. Recovered' = Recovered
  BY PhaseSteps
<1>5. journal' # None /\ Touched'
  BY <1>2, <1>3 DEF Preflight, Validate, NoneIsNoRecord, Touched, JournalFields
<1>6. Remembers(journal)' /\ Clean(journal)'
  BY <1>1, <1>2, <1>3 DEF Remembers, Clean, InPlace, Unfinished
<1>7. Journals'
  BY <1>1, <1>2, <1>4, <1>6 DEF Journals, Unconfirmed
<1>8. unit' \in Units
  BY <1>1, <1>3, Stops DEF Services
<1>9. act'.pc = "admit" => Serves'
  <2>1. CASE act.pc \in {"preflight", "check"} /\ act'.pc = "admit"
    <3>1. Serves /\ unit' = unit
      BY <1>1, <1>3, <2>1, Unchanged DEF Services
    <3> QED  BY <1>1, <1>3, <3>1 DEF Serves, Live
  <2>2. CASE act.pc = "disable" /\ act'.pc = "admit"
    <3>1. ~Live /\ unit' = Stopped
      BY <1>3, <2>2 DEF ReleaseInv, Control, Written
    <3> QED  BY <1>3, <3>1 DEF Serves, Live
  <2> QED  BY <1>1, <2>1, <2>2
<1>10. ~Finished' /\ PhaseKnown'
  BY <1>3 DEF Finished, PhaseKnown, Committing, Retired
<1>11. Services'
  BY <1>3, <1>5, <1>8, <1>9, <1>10 DEF Services, Settled, Stilled, Committing, Retired
<1>12. ~act.stop
  BY <1>1 DEF Outcomes, Rolls
<1>13. Outcomes'
  BY <1>3, <1>12 DEF Outcomes, Rolls
<1> QED  BY <1>1, <1>2, <1>3, <1>7, <1>10, <1>11, <1>13, Journaled

-----------------------------------------------------------------------------
(* The files are written. *)
LEMMA Writes ==
  ASSUME ReleaseInv, NEW f \in Files, NEW v, disk' = [disk EXCEPT ![f] = v]
  PROVE  disk'[f] = v /\ \A g \in Files \ {f} : disk'[g] = disk[g]
  BY DEF ReleaseInv, FilesOK, IsImage

LEMMA FileNames ==
  {"bin", "trusted", "activate", "policy", "retained", "config", "unit"} \subseteq Files
  BY DEF Files, InstallFiles

LEMMA Activates ==
  ASSUME ReleaseInv, ServiceInv, WriteConfig \/ WriteUnit
  PROVE  ServiceInv'
<1>1. DOMAIN act = PassFields /\ Outcomes /\ Services /\ Journals /\ PhaseKnown
      /\ UNCHANGED <<journal, done, unit, applied>> /\ act.pc \in {"config", "unit"}
      /\ act.intent \in Intents
  BY DEF ReleaseInv, Control, PassOK, ServiceInv, WriteConfig, WriteUnit
<1>2. journal # None /\ journal.phase = "applying" /\ Remembers(journal) /\ Clean(journal) /\ done = None
  BY <1>1, NoneUnconfirmed DEF ReleaseInv, Control, Starting, Rewriting, PhaseKnown, Journals
<1>3. act'.pc \in {"unit", "restart"} /\ act'.stop = act.stop
  BY <1>1 DEF WriteConfig, WriteUnit, Go, PassFields
<1>4. disk'.config = act.intent /\ \A g \in {"bin", "activate", "policy", "retained"} : disk'[g] = disk[g]
  <2>1. CASE WriteConfig
    <3>1. disk' = [disk EXCEPT !["config"] = act.intent]
      BY <2>1 DEF WriteConfig
    <3>2. disk'["config"] = act.intent /\ \A g \in Files \ {"config"} : disk'[g] = disk[g]
      BY <3>1, Writes, FileNames
    <3> QED  BY <3>2, FileNames
  <2>2. CASE WriteUnit
    <3>1. disk' = [disk EXCEPT !["unit"] = act.intent] /\ disk.config = act.intent
      BY <2>2 DEF WriteUnit, ReleaseInv, Control, Written
    <3> QED  BY <3>1, Writes, FileNames
  <2> QED  BY <2>1, <2>2
<1>5. Remembers(journal)' /\ Clean(journal)'
  BY <1>1, <1>2, <1>4 DEF Remembers, Clean, InPlace
<1>6. Journals'
  BY <1>1, <1>2, <1>4, <1>5, ActivationAssumption DEF Journals, Unconfirmed
<1>7. ~Committing' /\ ~Finished' /\ PhaseKnown'
  BY <1>1, <1>2, <1>3 DEF Committing, Retired, Finished, PhaseKnown
<1>8. Services'
  BY <1>1, <1>2, <1>3, <1>7 DEF Services, Settled, Touched, Stilled
<1>9. Outcomes'
  BY <1>1, <1>3 DEF Outcomes, Rolls
<1> QED  BY <1>1, <1>2, <1>3, <1>6, <1>7, <1>8, <1>9, Journaled

LEMMA CommitsFiles ==
  ASSUME ReleaseInv, ServiceInv, CommitPolicy \/ CommitRetained \/ CompleteActivation
  PROVE  ServiceInv'
<1>1. DOMAIN act = PassFields /\ Outcomes /\ Services /\ Journals /\ PhaseKnown
      /\ UNCHANGED <<journal, done, unit, applied>> /\ act.pc \in {"policy", "retained", "complete"}
  BY DEF ReleaseInv, Control, PassOK, ServiceInv, CommitPolicy, CommitRetained, CompleteActivation
<1>2. Committing
  BY <1>1 DEF Committing
<1>3. journal # None /\ journal.phase = "validated" /\ Remembers(journal) /\ Serves /\ done = None
  BY <1>1, <1>2, NoneUnconfirmed DEF ReleaseInv, Control, Starting, PhaseKnown, Journals, Services
<1>4. /\ act'.pc \in {"retained", "complete"} \/ (act'.pc = "retire" /\ act'.next = "committed")
      /\ act'.stop = act.stop /\ act'.outcome = act.outcome /\ act'.intent = act.intent
  BY <1>1 DEF CommitPolicy, CommitRetained, CompleteActivation, Go, PassFields
<1>5. \A g \in {"bin", "config", "unit"} : disk'[g] = disk[g]
  <2>1. PICK f \in {"policy", "retained", "activate"} : \E v : disk' = [disk EXCEPT ![f] = v]
    BY DEF CommitPolicy, CommitRetained, CompleteActivation
  <2>2. PICK v : disk' = [disk EXCEPT ![f] = v]
    BY <2>1
  <2> QED  BY <2>2, Writes, FileNames
<1>6. Recovered' = Recovered
  BY ActivationWrites
<1>7. Remembers(journal)' /\ Clean(journal)'
  BY <1>1, <1>3 DEF Remembers, Clean
<1>8. Journals'
  BY <1>1, <1>3, <1>5, <1>6, <1>7 DEF Journals, Unconfirmed
<1>9. ~Finished' /\ PhaseKnown'
  BY <1>1, <1>3, <1>4 DEF Finished, PhaseKnown
<1>10. Serves'
  BY <1>1, <1>3, <1>4, <1>5 DEF Serves, Live
<1>11. Services'
  BY <1>1, <1>3, <1>4, <1>9, <1>10 DEF Services, Settled, Touched, Stilled
<1>12. Outcomes'
  BY <1>1, <1>4 DEF Outcomes, Rolls
<1> QED  BY <1>1, <1>3, <1>4, <1>8, <1>9, <1>11, <1>12, Journaled

(* A file is restored: before its mark goes, the binary is back, and before
   the configuration goes, the unit. *)
LEMMA RestoresFile ==
  ASSUME ReleaseInv, Journals, journal # None, RestoreFile, UNCHANGED <<journal, done>>,
         Recovered' = Recovered
  PROVE  Journals' /\ (~Touched => disk'.config = disk.config)
<1>1. PICK f \in Unrestored : /\ \A g \in Unrestored : Rank[f] <= Rank[g]
                              /\ disk' = [disk EXCEPT ![f] = journal.saved[f]]
  BY DEF RestoreFile
<1>2. f \in DOMAIN journal.saved /\ f \in Files /\ JournalOK(journal) /\ IsBackup(journal.saved)
      /\ IsImage(disk) /\ done = None
  BY <1>1, NoneUnconfirmed DEF Unrestored, ReleaseInv, FilesOK, JournalOK, IsBackup
<1>3. disk'[f] = journal.saved[f] /\ \A g \in Files \ {f} : disk'[g] = disk[g]
  BY <1>1, <1>2, Writes
<1>4. /\ f = "activate" => "bin" \notin Unrestored
      /\ f = "config" => "unit" \notin Unrestored
  BY <1>1 DEF Rank
<1>5. Remembers(journal) /\ Clean(journal)
  BY DEF Journals
<1>6. \A X : X \subseteq Files /\ InPlace(journal, X) => InPlace(journal, X)'
  BY <1>2, <1>3 DEF InPlace
<1>7. Clean(journal)'
  <2>1. InPlace(journal, {"bin"}) \/ disk.activate # None
        => InPlace(journal, {"bin"})' \/ disk'.activate # None
    <3>1. CASE f = "activate"
      BY <1>2, <1>3, <1>4, <3>1, FileNames DEF InPlace, Unrestored
    <3>2. CASE f # "activate"
      BY <1>3, <1>6, <3>2, FileNames
    <3> QED  BY <3>1, <3>2
  <2> QED  BY <1>5, <1>6, <2>1, FileNames DEF Clean
<1>8. Recovered = Over(journal.saved, disk) /\ Good(Recovered)
  BY DEF Recovered, ReleaseInv
<1>9. ("config" \in DOMAIN journal.saved <=> "unit" \in DOMAIN journal.saved)
  BY <1>2 DEF JournalOK, InstallFiles
<1>10. \A g \in {"config", "unit"} : g \in DOMAIN journal.saved => Recovered[g] = journal.saved[g]
  BY <1>2, <1>8, OverImage, FileNames
<1>11. Recovered.unit = Recovered.config
  BY <1>8 DEF Good, Slot!Whole
<1>12. /\ disk.unit # None => disk.config # None
       /\ Recovered.config # None => disk.config # None
  BY DEF Journals
<1>13. /\ disk'.unit # None => disk'.config # None
       /\ Recovered.config # None => disk'.config # None
  <2>1. CASE f = "config"
    <3>1. disk.unit = Recovered.unit
      BY <1>2, <1>4, <1>9, <1>10, <2>1 DEF Unrestored
    <3>2. disk'.config = Recovered.config /\ disk'.unit = disk.unit
      BY <1>2, <1>3, <1>10, <2>1, FileNames
    <3> QED  BY <1>11, <3>1, <3>2
  <2>2. CASE f = "unit"
    BY <1>2, <1>3, <1>10, <1>11, <1>12, <2>2, FileNames
  <2>3. CASE f \notin {"config", "unit"}
    BY <1>3, <1>12, <2>3, FileNames
  <2> QED  BY <2>1, <2>2, <2>3
<1>14. Remembers(journal)'
  BY <1>5 DEF Remembers
<1>15. Journals'
  BY <1>2, <1>7, <1>13, <1>14 DEF Journals, Unconfirmed
<1>16. ~Touched => f # "config"
  BY <1>1, <1>2, <1>5 DEF Touched, Clean, InPlace, Unrestored
<1> QED  BY <1>3, <1>15, <1>16, FileNames

LEMMA Restores ==
  ASSUME ReleaseInv, ServiceInv, RollbackFile
  PROVE  ServiceInv'
<1>1. DOMAIN act = PassFields /\ Outcomes /\ Services /\ Journals /\ act.pc = "rbFiles"
      /\ UNCHANGED <<journal, done, unit, applied, act>> /\ RestoreFile
  BY DEF ReleaseInv, Control, PassOK, ServiceInv, RollbackFile
<1>2. journal # None /\ done = None
  BY <1>1, NoneUnconfirmed DEF ReleaseInv, Control, Rolling
<1>3. Recovered' = Recovered
  BY RollbackWrites
<1>4. Kept' = Kept
  BY <1>1, <1>2, <1>3 DEF Kept, Recovered
<1>5. Journals' /\ (~Touched => disk'.config = disk.config)
  BY <1>1, <1>2, <1>3, RestoresFile
<1>6. ~Committing' /\ ~Finished' /\ PhaseKnown'
  BY <1>1 DEF Committing, Retired, Finished, PhaseKnown
<1>7. Touched' <=> Touched
  BY <1>1 DEF Touched
<1>8. Settled'
  BY <1>1, <1>4, <1>5, <1>7, FitsStill DEF Services, Settled
<1>9. Stilled'
  BY <1>1, <1>7 DEF Services, Stilled, StopNeeded, Restart
<1>10. Services'
  BY <1>1, <1>6, <1>8, <1>9 DEF Services
<1>11. Outcomes'
  BY <1>1 DEF Outcomes, Rolls
<1> QED  BY <1>1, <1>2, <1>5, <1>6, <1>10, <1>11, Journaled

-----------------------------------------------------------------------------
(* The worker: the running service and what is kept for it stay. *)
LEMMA WorkerKeeps ==
  ASSUME ReleaseInv, ServiceInv, act.pc = "idle", UNCHANGED <<act, unit, applied>>, done = None, done' = None,
         ~Touched, ~Touched', Recovered' = Recovered, disk'.config = disk.config, Journals'
  PROVE  ServiceInv'
<1>1. Outcomes /\ Fits /\ unit \in Units
  BY DEF ServiceInv, Services, Settled
<1>2. Kept' = Kept
  BY DEF Kept, Recovered
<1>3. Settled'
  BY <1>1, <1>2, FitsStill DEF Settled
<1>4. PhaseKnown' /\ Services'
  BY <1>1, <1>3, SilentServices DEF Silent
<1>5. Reported'
  BY IdleReports
<1>6. Outcomes' /\ Awaiting'
  BY <1>1 DEF Outcomes, Rolls, Awaiting, Unconfirmed
<1> QED  BY <1>4, <1>5, <1>6 DEF ServiceInv

LEMMA WorkerSteps ==
  ASSUME NoneIsNoRecord, ReleaseInv, ServiceInv, Marked,
         Backup \/ Staged \/ MarkActivation \/ CommitBinary \/ WriteTrusted \/ WorkerRestores
  PROVE  ServiceInv'
<1>1. /\ slot # None /\ slot.pc \in {"saving", "mark", "binary", "receipt", "staged", "undo"}
      /\ UNCHANGED <<act, done, unit, applied>>
  BY DEF Backup, Staged, MarkActivation, CommitBinary, WriteTrusted, WorkerRestores
<1>2. /\ journal # None /\ act.pc = "idle" /\ done = None /\ DOMAIN journal = JournalFields
      /\ journal.phase = "installing" /\ DOMAIN journal.saved \subseteq InstallFiles
  BY <1>1, WorkerFrame
<1>3. Journals /\ Remembers(journal) /\ Clean(journal) /\ ~Touched
  BY <1>2 DEF ServiceInv, Journals, Touched
<1>4. Recovered' = Recovered
  BY WorkerJournal, WorkerWrites
<1>5. CASE Backup \/ Staged
  <2>1. disk' = disk
    BY <1>5 DEF Backup, Staged
  <2>2. /\ journal'.phase \in {"installing", "installed"} /\ journal'.old = journal.old
        /\ journal'.saved = journal.saved \/ journal'.saved = Save(InstallFiles)
    BY <1>2, <1>5 DEF Backup, Staged, JournalFields
  <2>3. InstallFiles \subseteq Files
    BY DEF Files
  <2>4. \A X : InPlace(journal, X) => InPlace(journal, X)'
    <3>1. CASE journal'.saved = journal.saved
      BY <2>1, <3>1 DEF InPlace
    <3>2. CASE journal'.saved = Save(InstallFiles)
      BY <1>2, <2>1, <2>3, <3>2, SaveInPlace
    <3> QED  BY <2>2, <3>1, <3>2
  <2>5. Remembers(journal)' /\ Clean(journal)' /\ ~Touched'
    BY <1>2, <1>3, <2>1, <2>2, <2>4 DEF Remembers, Clean, Unfinished, Touched
  <2>6. Journals'
    BY <1>1, <1>2, <1>3, <1>4, <2>1, <2>5 DEF Journals, Unconfirmed
  <2> QED  BY <1>1, <1>2, <1>3, <1>4, <2>1, <2>5, <2>6, WorkerKeeps
<1>6. CASE MarkActivation \/ CommitBinary \/ WriteTrusted
  <2>1. journal' = journal /\ ~Touched'
    BY <1>3, <1>6 DEF MarkActivation, CommitBinary, WriteTrusted, Touched
  <2>2. /\ \A g \in {"policy", "retained", "config", "unit"} : disk'[g] = disk[g]
        /\ disk'.activate # None \/ (disk'.activate = disk.activate /\ disk'.bin = disk.bin)
    <3>1. CASE MarkActivation
      <4>1. disk' = [disk EXCEPT !["activate"] = "pending"]
        BY <3>1 DEF MarkActivation
      <4> QED  BY <4>1, Writes, FileNames DEF NoneIsNoRecord
    <3>2. CASE CommitBinary
      <4>1. disk' = [disk EXCEPT !["bin"] = slot.version] /\ disk.activate # None
        BY <3>2 DEF CommitBinary, Marked
      <4> QED  BY <4>1, Writes, FileNames
    <3>3. CASE WriteTrusted
      <4>1. disk' = [disk EXCEPT !["trusted"] = slot.version]
        BY <3>3 DEF WriteTrusted
      <4> QED  BY <4>1, Writes, FileNames
    <3> QED  BY <1>6, <3>1, <3>2, <3>3
  <2>3. Clean(journal)' /\ Remembers(journal)'
    BY <1>3, <2>1, <2>2 DEF Clean, InPlace, Remembers
  <2>4. Journals'
    BY <1>1, <1>2, <1>3, <1>4, <2>1, <2>2, <2>3 DEF Journals, Unconfirmed
  <2> QED  BY <1>1, <1>2, <1>3, <1>4, <2>1, <2>2, <2>4, WorkerKeeps
<1>7. CASE WorkerRestores
  <2>1. CASE Unrestored = {}
    <3>1. journal' = None /\ disk' = disk /\ ~Touched'
      BY <1>7, <2>1 DEF WorkerRestores, Touched
    <3>2. Journals'
      BY <1>1, <1>2, <1>3, <1>4, <3>1 DEF Journals, Unconfirmed
    <3> QED  BY <1>1, <1>2, <1>3, <1>4, <3>1, <3>2, WorkerKeeps
  <2>2. CASE Unrestored # {}
    <3>1. journal' = journal /\ RestoreFile /\ ~Touched'
      BY <1>3, <1>7, <2>2 DEF WorkerRestores, Touched
    <3>2. Journals' /\ disk'.config = disk.config
      BY <1>1, <1>2, <1>3, <1>4, <3>1, RestoresFile
    <3> QED  BY <1>1, <1>2, <1>3, <1>4, <3>1, <3>2, WorkerKeeps
  <2> QED  BY <2>1, <2>2
<1> QED  BY <1>5, <1>6, <1>7

(* The mark is there before the binary is replaced. *)
LEMMA MarkedStep ==
  ASSUME NoneIsNoRecord, ReleaseInv, Marked, [ActNext]_actVars
  PROVE  Marked'
<1>1. CASE InstallWorker
  <2>1. CASE MarkActivation
    <3>1. disk' = [disk EXCEPT !["activate"] = "pending"]
      BY <2>1 DEF MarkActivation
    <3> QED  BY <3>1, Writes, FileNames DEF NoneIsNoRecord, Marked
  <2>2. CASE Prepare \/ Backup \/ CommitBinary \/ WriteTrusted \/ Staged \/ WorkerRestores
    <3>1. slot # None /\ DOMAIN slot = {"version", "pc", "err"}
      BY <2>2 DEF Prepare, Backup, CommitBinary, WriteTrusted, Staged, WorkerRestores, ReleaseInv,
         Control, SlotOK
    <3>2. slot'.pc # "binary"
      BY <2>2, <3>1 DEF Prepare, Backup, CommitBinary, WriteTrusted, Staged, WorkerRestores, WorkerGo,
         WorkerEnds
    <3> QED  BY <3>2 DEF Marked
  <2> QED  BY <1>1, <2>1, <2>2 DEF InstallWorker
<1>2. CASE WorkerFails \/ WorkerKilled
  <2>1. slot # None /\ DOMAIN slot = {"version", "pc", "err"}
    BY <1>2 DEF WorkerFails, WorkerKilled, ReleaseInv, Control, SlotOK
  <2>2. slot'.pc # "binary"
    BY <1>2, <2>1 DEF WorkerFails, WorkerKilled, WorkerGo, WorkerEnds
  <2> QED  BY <2>2 DEF Marked
<1>3. CASE Crash \/ Reboot
  BY <1>3 DEF Crash, Reboot, Marked
<1>4. CASE Start
  <2>1. UNCHANGED disk /\ (slot' = slot \/ slot' = None \/ slot'.pc = "waiting")
    BY <1>4 DEF Start, NewJob
  <2> QED  BY <2>1 DEF Marked
<1>5. CASE WriteConfig \/ WriteUnit \/ RollbackFile \/ CommitPolicy \/ CommitRetained \/ CompleteActivation
  <2>1. act.pc # "idle" /\ slot' = slot
    BY <1>5 DEF WriteConfig, WriteUnit, RollbackFile, CommitPolicy, CommitRetained, CompleteActivation
  <2>2. ~WorkerHoldsLock
    BY <2>1, Locked DEF ReleaseInv
  <2> QED  BY <2>1, <2>2 DEF WorkerHoldsLock, Marked
<1>6. CASE UNCHANGED <<disk, slot>>
  BY <1>6 DEF Marked
<1>7. \/ InstallWorker \/ WorkerFails \/ WorkerKilled \/ Crash \/ Reboot \/ Start
      \/ WriteConfig \/ WriteUnit \/ RollbackFile \/ CommitPolicy \/ CommitRetained \/ CompleteActivation
      \/ UNCHANGED <<disk, slot>>
  <2>1. CASE Pass
    BY <2>1 DEF Pass, Converge, Recover, Recorded, InstallFailed, BeginCoreApply, SnapshotMeta,
       SnapshotService, Preflight, StopOld, EnableRestart, Validate, ApplyFailed, Decide, RollbackStop,
       RollbackStart, Retire, Sync, Admit, Committed, Undo, Undone, Receipt
  <2>2. CASE Faults
    BY <2>2 DEF Faults, Refuse, StepFails, RollbackFails, SyncFails, IngressFails, GuardFails, CommitFails
  <2>3. CASE \E g \in Goals : Want(g)
    BY <2>3 DEF Want
  <2> QED  BY <2>1, <2>2, <2>3 DEF ActNext
<1> QED  BY <1>1, <1>2, <1>3, <1>4, <1>5, <1>6, <1>7

-----------------------------------------------------------------------------
LEMMA ServiceInit == ASSUME NoneIsNoRecord, ActInit PROVE ServiceInv /\ Marked
<1>1. /\ disk = [f \in Files |-> None] /\ journal = None /\ done = None /\ slot = None
      /\ unit = [run |-> None, enabled |-> FALSE] /\ act = IdlePass /\ applied = None
  BY DEF ActInit
<1>2. act.pc = "idle" /\ act.intent = None /\ act.outcome = None /\ act.stop = FALSE
  BY <1>1 DEF IdlePass
<1>3. disk.config = None /\ disk.unit = None /\ Recovered = disk
  BY <1>1, FileNames DEF Recovered
<1>4. Journals /\ PhaseKnown
  BY <1>1, <1>2, <1>3 DEF Journals, Unconfirmed, PhaseKnown, Committing, Retired
<1>5. Services
  BY <1>1, <1>2 DEF Services, Units, Settled, Fits, Stilled, Committing, Retired, Finished
<1>6. Outcomes /\ Awaiting /\ Reported
  BY <1>1, <1>2 DEF Outcomes, Rolls, NoneIsNoRecord, Awaiting, Unconfirmed, Reported
<1> QED  BY <1>1, <1>4, <1>5, <1>6 DEF ServiceInv, Marked

LEMMA ServiceStep ==
  ASSUME NoneIsNoRecord, ReleaseInv, ServiceInv, Marked, [ActNext]_actVars
  PROVE  ServiceInv'
<1>1. CASE Pass
  <2>1. CASE Converge \/ Recover \/ Recorded \/ Start
    BY <2>1, BeginsPass
  <2>2. CASE InstallFailed \/ Decide
    BY <2>2, KeepsOrStops
  <2>3. CASE BeginCoreApply
    BY <2>3, MovesPass, BeginsJournal
  <2>4. CASE ApplyFailed \/ Undo
    BY <2>4, MovesPass
  <2>5. CASE SnapshotMeta \/ SnapshotService
    BY <2>5, Snapshots
  <2>6. CASE Preflight \/ Validate
    BY <2>6, Phased
  <2>7. CASE StopOld \/ EnableRestart
    BY <2>7, StopsOld, Restarts
  <2>8. CASE WriteConfig \/ WriteUnit
    BY <2>8, Activates
  <2>9. CASE RollbackStop \/ RollbackStart
    BY <2>9, Fences, StartsAgain
  <2>10. CASE RollbackFile
    BY <2>10, Restores
  <2>11. CASE Retire \/ Sync
    BY <2>11, Retires, Confirms
  <2>12. CASE Admit \/ Committed
    BY <2>12, Admits, Commits
  <2>13. CASE CommitPolicy \/ CommitRetained \/ CompleteActivation
    BY <2>13, CommitsFiles
  <2>14. CASE Undone \/ Receipt
    BY <2>14, GivesUp, Receipts
  <2> QED  BY <1>1, <2>1, <2>2, <2>3, <2>4, <2>5, <2>6, <2>7, <2>8, <2>9, <2>10, <2>11, <2>12, <2>13,
              <2>14 DEF Pass
<1>2. CASE InstallWorker
  BY <1>2, Prepares, WorkerSteps DEF InstallWorker
<1>3. CASE Faults
  <2>1. CASE Refuse
    BY <2>1, BeginsPass
  <2>2. CASE StepFails \/ RollbackFails \/ IngressFails \/ CommitFails
    BY <2>2, MovesPass
  <2>3. CASE SyncFails
    BY <2>3, NotRetired
  <2>4. CASE GuardFails
    BY <2>4, GivesUp
  <2>5. CASE WorkerFails \/ WorkerKilled
    BY <2>5, NothingSeen DEF WorkerFails, WorkerKilled
  <2>6. CASE Crash \/ Reboot
    BY <2>6, Dies, Boots
  <2> QED  BY <1>3, <2>1, <2>2, <2>3, <2>4, <2>5, <2>6 DEF Faults
<1>4. CASE \E g \in Goals : Want(g)
  BY <1>4, NothingSeen DEF Want
<1>5. CASE UNCHANGED actVars
  BY <1>5, NothingSeen
<1> QED  BY <1>1, <1>2, <1>3, <1>4, <1>5 DEF ActNext

(* At the end of a pass the service is what the invariant says of it. *)
LEMMA CoreIsSafe == ASSUME ReleaseInv, ServiceInv PROVE CoreSafe
<1>1. Journals /\ Services /\ Outcomes /\ Awaiting /\ Reported /\ unit \in Units
  BY DEF ServiceInv, Services
<1>2. ActTypeOK
  <2>1. IsImage(disk) /\ goal \in Goals /\ (journal # None => JournalOK(journal) /\ Remembers(journal))
    BY <1>1 DEF ReleaseInv, FilesOK, Journals
  <2>2. unit.run # None => unit.run.bin \in Versions /\ unit.run.config \in Intents
    BY <1>1 DEF Units, Processes
  <2> QED  BY <1>1, <2>1, <2>2 DEF ActTypeOK, IsImage, IsBackup, JournalOK, Remembers, Reported
<1>3. RunsRecovered
  <2> SUFFICES ASSUME act.pc = "idle", act.intent # None, unit.run # None,
                      journal = None \/ journal.phase \notin Unfinished, ~unit.run.boot
               PROVE  unit.run.bin = Recovered.bin /\ unit.run.config = Recovered.config
    BY DEF RunsRecovered
  <2>1. ~Touched
    BY DEF Touched, Unfinished
  <2>2. Fits /\ Kept.config = disk.config
    BY <1>1, <2>1, KeptFiles DEF Services, Settled
  <2>3. ~Unconfirmed
    BY <1>1 DEF Awaiting
  <2>4. Kept = Recovered
    BY <2>3 DEF Kept, Recovered, Unconfirmed
  <2> QED  BY <2>2, <2>4 DEF Fits
<1>4. GuardKeepsClosed /\ ReportsTrue
  BY <1>1 DEF Outcomes, Reported, GuardKeepsClosed, ReportsTrue, RetainedIsWanted, AppliedIsCommitted
<1> QED  BY <1>2, <1>3, <1>4 DEF CoreSafe

(* For any intents, versions, goals and faults: after a pass the service is
   the one that recovery would choose, a failed guard leaves nothing running,
   a core that is kept serves the wanted intent, and what is reported as
   applied is committed and runs (convergeDesired, rollbackCore). *)
THEOREM CoresAreSafe == ASSUME BackupsAtomic, NoneIsNoRecord PROVE ActSpec => []CoreSafe
<1>1. ActInit => ReleaseInv /\ ServiceInv /\ Marked
  BY ReleaseInit, ServiceInit
<1>2. ReleaseInv /\ ServiceInv /\ Marked /\ [ActNext]_actVars => (ReleaseInv /\ ServiceInv /\ Marked)'
  BY ReleaseStep, ServiceStep, MarkedStep
<1>3. ReleaseInv /\ ServiceInv => CoreSafe
  BY CoreIsSafe
<1> QED  BY <1>1, <1>2, <1>3, PTL DEF ActSpec
=============================================================================
