---------------------------- MODULE ReleaseNotes ----------------------------
(***************************************************************************)
(* The release-notes cut (scripts/release_notes: main.py, release_cut.py,  *)
(* pipeline.py, discover.py, triage.py, generate.py, publish.py) on one    *)
(* release line.                                                           *)
(*                                                                         *)
(* A cut pins the line's tip, resolves the range since the last tag to     *)
(* pull requests, decides and writes their notes, and publishes the result *)
(* as a PR into the line.  What a reader should look at is listed in the   *)
(* PR's body, and holds the PR as a draft.  Meanwhile changes land, people *)
(* mark PRs ready, merge and close them, and tag what they merged.  A cut  *)
(* may be repeated, and may die between any two calls.                     *)
(*                                                                         *)
(* Texts and contributors are left out; categories, wording and advisories *)
(* come down to whether they raise one more reason to hold the PR.         *)
(***************************************************************************)
EXTENDS Naturals, Sequences, FiniteSets, SequencesExt, FiniteSetsExt

CONSTANTS
  Changes,       \* the pull requests that may land on the line, first in this order
  KindsOf(_),    \* the kinds each may be of
  MaxStage,      \* stages of the release: rc1, rc2, ..., the last is the GA
  RecordsStage,  \* the version file records the stage, not only the version
  MaxCommits,    \* bound: commits on the line
  MaxCuts,       \* bound: runs of the cut
  MaxClicks      \* bound: reverts, closings, and PRs marked ready by people

Kinds == {"labelled", "plain", "optout", "backport", "untraced"}

ASSUME NotesAssumption ==
  /\ IsFiniteSet(Changes) /\ Changes \subseteq Nat
  /\ \A c \in Changes : KindsOf(c) \subseteq Kinds
  /\ {MaxStage, MaxCommits, MaxCuts, MaxClicks} \subseteq Nat \ {0}
  /\ RecordsStage \in BOOLEAN

VARIABLES
  line,    \* the commits of the release line since the previous release
  kinds,   \* what each change that landed is, by its labels and its subject
  tags,    \* where the line is tagged, per stage; 0 while it is not
  cut,     \* the running cut
  cuts,    \* how many were started
  clicks,  \* how much of MaxClicks is used
  prep,    \* the content of each stage's prep branch
  pr,      \* each stage's release PR
  merged   \* what each stage's merged PR held and described
notesVars == <<line, kinds, tags, cut, cuts, clicks, prep, pr, merged>>

Stages == 1..MaxStage
Credited == Changes \X {"source", "backport"}
(* _recover_source_pr: the PR that a backport is credited to.              *)
SourceRecovered == {"source", "unresolved backport"}
Credits == SourceRecovered \union {"unconfirmed"}
(* What a cut makes: the notes, what the body lists for the reader, and what
   it only counts, whether it is to be held, the commit it was made from, and
   how far the line was when it was last looked at.                        *)
Products == [pin : 0..MaxCommits, seen : 0..MaxCommits, notes : SUBSET Credited,
             listed : SUBSET Changes, counted : SUBSET Changes, hold : BOOLEAN]
NoProduct == [pin |-> 0, seen |-> 0, notes |-> {}, listed |-> {}, counted |-> {}, hold |-> FALSE]
NoCut == [phase |-> "none", stage |-> 1, made |-> NoProduct, draft |-> FALSE, found |-> FALSE]
NoPR == [open |-> FALSE, draft |-> FALSE, body |-> NoProduct, byHand |-> FALSE]
CutStates ==
  [phase : {"none", "pin", "generate", "check", "find", "hold", "push", "describe", "settle"},
   stage : Stages, made : Products, draft : BOOLEAN, found : BOOLEAN]
PRStates == [open : BOOLEAN, draft : BOOLEAN, body : Products, byHand : BOOLEAN]
Entries == [what : {"change", "revert"}, id : Changes] \union [what : {"notes"}, id : Stages]

NotesTypeOK ==
  /\ line \in Seq(Entries) /\ Len(line) <= MaxCommits
  /\ kinds \in [Changes -> Kinds \union {"none"}]
  /\ tags \in [Stages -> 0..MaxCommits]
  /\ cut \in CutStates /\ cuts \in 0..MaxCuts /\ clicks \in 0..MaxClicks
  /\ prep \in [Stages -> Products]
  /\ pr \in [Stages -> PRStates]
  /\ merged \in [Stages -> Products \X Products]

NotesInit ==
  /\ line = <<>>
  /\ kinds = [c \in Changes |-> "none"]
  /\ tags = [k \in Stages |-> 0]
  /\ cut = NoCut /\ cuts = 0 /\ clicks = 0
  /\ prep = [k \in Stages |-> NoProduct]
  /\ pr = [k \in Stages |-> NoPR]
  /\ merged = [k \in Stages |-> <<NoProduct, NoProduct>>]
----------------------------------------------------------------------------
(* What the line says of itself.                                           *)

(* The stages whose dated sections a changelog holds.                      *)
Sections(commits) == {e.id : e \in {f \in Range(commits) : f.what = "notes"}}
Positions(what, c) == {i \in DOMAIN line : line[i].what = what /\ line[i].id = c}
MergedStages == Sections(line)
SectionsAt(pin) == Sections(SubSeq(line, 1, pin))

(* validate_release_progression on the version file.  One that holds only
   M.m.p lets every stage of the same version through.                     *)
Progresses(k, commits) == RecordsStage => \A j \in Sections(commits) : j < k
(* _refuse_already_cut_stage: for such a file the changelog's headings say
   what was cut.                                                           *)
AlreadyCut(k, commits) == ~RecordsStage /\ {k, MaxStage} \intersect Sections(commits) # {}
(* validate_target_release_tag: a tag of this stage or of a later one.     *)
TagBlocks(k) == \E j \in Stages : j >= k /\ tags[j] # 0
(* _validate_release_target.                                               *)
ReleaseTarget(k) == Progresses(k, line) /\ ~AlreadyCut(k, line) /\ ~TagBlocks(k)

(* _warn_rc_sequence: the changelog's highest rc is not the one before.
   The GA is never out of sequence.                                        *)
OutOfSequence(k) ==
  k < MaxStage /\ k # Max({0} \union (MergedStages \ {MaxStage})) + 1
----------------------------------------------------------------------------
(* The range: discover.py.                                                 *)

(* The first candidate starts at the previous release, the others at the
   highest tag that is reachable (resolve_last_tag).                       *)
Base(k) ==
  LET known == {j \in Stages : tags[j] # 0}
  IN IF k = 1 \/ known = {} THEN 0 ELSE tags[Max(known)]

InRange(k, pin, what, c) == {i \in Positions(what, c) : Base(k) < i /\ i <= pin}
(* A revert takes back what landed before it; a later landing supersedes
   it (resolve_commit_prs).                                                *)
Reverted(k, pin) ==
  {c \in Changes : /\ InRange(k, pin, "revert", c) # {}
                   /\ \A i \in InRange(k, pin, "change", c) :
                        i < Max(InRange(k, pin, "revert", c))}
Landed(k, pin) == {c \in Changes : InRange(k, pin, "change", c) # {}} \ Reverted(k, pin)
----------------------------------------------------------------------------
(* What becomes of a change of the range: how it was discovered, what was
   decided, what was written.  Most of these are sections of the body.     *)

(* hydrate_prs: a commit may have no PR, its PR may not be readable, the
   origin of a cherry-pick may stay unconfirmed (resolve_commit_prs).      *)
Discovered(c) ==
  CASE kinds[c] = "untraced" -> {"unresolved"}
    [] kinds[c] = "backport" -> SourceRecovered \union {"unresolved pr"}
    [] OTHER -> {"source", "unconfirmed", "unresolved pr"}

(* classify: the label that excludes wins.                                 *)
Disposition(c) ==
  CASE kinds[c] = "optout" -> "exclude"
    [] kinds[c] \in {"labelled", "backport"} -> "include"
    [] OTHER -> "candidate"
(* triage: the model's verdict, or none, then the oracle of released code
   and the guardrail.  What nobody decides is left to people.              *)
Triaged(c) ==
  CASE Disposition(c) = "include" -> {"included"}
    [] Disposition(c) = "exclude" -> {"label excluded"}
    [] OTHER -> {"ai included", "guardrail included", "ai excluded", "undecided"}
(* generate: a bullet, one that is flagged, or none after a retry.         *)
Written == {"clean", "uncertain", "skipped"}

Noting == {"included", "ai included", "guardrail included"}
Verdicts(c) ==
  {<<d, "none", "none">> : d \in Discovered(c) \ Credits} \union
  {w \in (Discovered(c) \intersect Credits) \X Triaged(c) \X (Written \union {"none"}) :
     w[2] \in Noting <=> w[3] # "none"}

(* The body's sections about changes.                                      *)
By(v, i, said) == {c \in DOMAIN v : v[c][i] \in said}
UnresolvedSections(v) == By(v, 1, {"unresolved", "unresolved pr"})
BackportSection(v) == By(v, 1, {"unresolved backport"})
CherryPickSection(v) == By(v, 1, {"unconfirmed"}) \ By(v, 2, {"none"})
TriageSections(v) == By(v, 2, {"guardrail included", "undecided"})
AITriaged(v) == By(v, 2, {"ai included", "ai excluded"})
(* _triage_counts_section gives numbers only.  Which PRs are left out is in
   the verdicts file that the workflow keeps (write_verdicts).             *)
LeftOut(v) == By(v, 2, {"ai excluded", "label excluded"})
SkippedSection(v) == By(v, 3, {"skipped"})
UncertainSection(v) == By(v, 3, {"uncertain"})
ReviewSections(v) ==
  UNION {UnresolvedSections(v), BackportSection(v), CherryPickSection(v), TriageSections(v),
         SkippedSection(v), UncertainSection(v)}

(* Reasons to hold that are not about one change.                          *)
(* collect_advisory_fixes never fails: it says what it could not read.     *)
Advisories == {"read", "some unreadable", "fetch failed"}
AdvisorySection(a) == a # "read"
(* What align_wording does with another line's wording of a note.          *)
Alignments == {"carried", "declined", "contradiction"}
DeclinedSection(w) == w = "contradiction"
(* release_impact_reason and named_cve, against the urgency of the cut.    *)
Impacts == {"none", "impact", "cve"}
SecuritySections(impact, urgency, fixes) ==
  \/ impact # "none" /\ urgency = "LOW"
  \/ impact = "cve" /\ ~(urgency = "SECURITY" /\ fixes)
  \/ urgency = "SECURITY" /\ ~fixes
(* _apply_category_guardrail: a bullet may stay in no category.            *)
Categories == {"assigned", "catch-all"}
UncategorizedSection(g) == g = "catch-all"
Doubts ==
  {AdvisorySection(x[1]) \/ DeclinedSection(x[2]) \/ SecuritySections(x[3], x[4], x[5])
     \/ UncategorizedSection(x[6]) :
     x \in Advisories \X Alignments \X Impacts \X {"LOW", "HIGH", "SECURITY"} \X BOOLEAN \X Categories}

(* The notes that are written, less those that the changelog at the pin or
   the base tag's history already credits.                                 *)
CreditedBefore(pin) ==
  UNION {merged[k][1].notes : k \in SectionsAt(pin)}
ReleasedAt(base) ==
  {<<c, IF kinds[c] = "backport" THEN "backport" ELSE "source">> :
     c \in {d \in Changes : kinds[d] # "untraced" /\ \E i \in Positions("change", d) : i <= base}}
Credit(d) == IF d = "unresolved backport" THEN "backport" ELSE "source"
Bullets(v) == {<<c, Credit(v[c][1])>> : c \in By(v, 3, {"clean", "uncertain"})}
(* Mutant: the tag-based range is trusted not to repeat itself.            *)
BulletsOfTheRange(v, k, pin) == Bullets(v)
NewBullets(v, k, pin) == Bullets(v) \ (CreditedBefore(pin) \union ReleasedAt(Base(k)))

(* _no_new_prs_section: what was dropped is named only if nothing is left. *)
NoNewNotesSection(v, k, pin) ==
  IF NewBullets(v, k, pin) = {} THEN By(v, 3, {"clean", "uncertain"}) ELSE {}
(* What _build_pr_body lists, PR by PR.                                    *)
Body(v, k, pin) == UNION {ReviewSections(v), Reverted(k, pin), NoNewNotesSection(v, k, pin)}

HoldReasons(v, k, pin, doubt) ==
  \/ doubt \/ OutOfSequence(k)
  \/ ReviewSections(v) # {} \/ AITriaged(v) # {} \/ Reverted(k, pin) # {}
  \/ NewBullets(v, k, pin) = {}
ShouldHold(reasons, forced) == reasons /\ ~forced

(* A cut whose included PRs got no bullet at all fails.                    *)
NothingWritten(v) == By(v, 2, Noting) # {} /\ Bullets(v) = {}
Product(v, k, pin, doubt, forced) ==
  [pin |-> pin, seen |-> pin, notes |-> NewBullets(v, k, pin), listed |-> Body(v, k, pin),
   counted |-> LeftOut(v), hold |-> ShouldHold(HoldReasons(v, k, pin, doubt), forced)]
----------------------------------------------------------------------------
(* The cut.  One runs at a time: the workflow's concurrency group.         *)

Phase(p) == cut.phase = p
To(p) == cut' = [cut EXCEPT !.phase = p]
Done == cut' = NoCut
Keeps == UNCHANGED <<line, kinds, tags, cuts, clicks, merged>>

CutStarts(k) ==
  /\ Phase("none") /\ cuts < MaxCuts /\ cuts' = cuts + 1
  /\ ReleaseTarget(k)
  /\ cut' = [NoCut EXCEPT !.phase = "pin", !.stage = k]
  /\ UNCHANGED <<line, kinds, tags, clicks, prep, pr, merged>>

(* The tip is fetched and pinned; the target is validated there again.     *)
CutPins ==
  /\ Phase("pin")
  /\ IF Progresses(cut.stage, line) /\ ~AlreadyCut(cut.stage, line)
     THEN cut' = [cut EXCEPT !.phase = "generate", !.made.pin = Len(line)] ELSE Done
  /\ Keeps /\ UNCHANGED <<prep, pr>>

CutGenerates ==
  /\ Phase("generate")
  /\ LET k == cut.stage  pin == cut.made.pin  landed == Landed(k, pin)
     IN \E v \in {f \in [landed -> UNION {Verdicts(c) : c \in landed}] :
                    \A c \in landed : f[c] \in Verdicts(c)} :
          IF NothingWritten(v) THEN Done
          ELSE \E doubt \in Doubts, forced \in BOOLEAN :
                 cut' = [cut EXCEPT !.phase = "check", !.made = Product(v, k, pin, doubt, forced)]
  /\ Keeps /\ UNCHANGED <<prep, pr>>

(* Mutant: the line is not looked at again.                                *)
CutChecksNothing ==
  /\ Phase("check")
  /\ cut' = [cut EXCEPT !.phase = "find", !.made.seen = Len(line)]
  /\ Keeps /\ UNCHANGED <<prep, pr>>

(* _assert_remote_branch_unchanged.                                        *)
CutChecks ==
  /\ Phase("check")
  /\ IF Len(line) = cut.made.pin
     THEN cut' = [cut EXCEPT !.phase = "find", !.made.seen = Len(line)] ELSE Done
  /\ Keeps /\ UNCHANGED <<prep, pr>>

(* Mutant: a PR that is ready is left so while its branch is replaced.     *)
CutFindsAndPushes ==
  /\ Phase("find")
  /\ LET found == pr[cut.stage].open
     IN cut' = [cut EXCEPT !.phase = "push", !.found = found, !.draft = found /\ pr[cut.stage].draft]
  /\ Keeps /\ UNCHANGED <<prep, pr>>

(* find_existing_pr, and what it says of the draft state.                  *)
CutFinds ==
  /\ Phase("find")
  /\ LET found == pr[cut.stage].open
     IN cut' = [cut EXCEPT !.phase = IF found /\ ~pr[cut.stage].draft THEN "hold" ELSE "push",
                           !.found = found, !.draft = found /\ pr[cut.stage].draft]
  /\ Keeps /\ UNCHANGED <<prep, pr>>

(* reconcile_draft: GitHub refuses it for a PR that is no longer open.     *)
SetsDraft(draft, next) ==
  IF pr[cut.stage].open
  THEN /\ pr' = [pr EXCEPT ![cut.stage].draft = draft, ![cut.stage].byHand = FALSE]
       /\ IF next = "none" THEN Done ELSE To(next)
  ELSE Done /\ UNCHANGED pr

CutHolds == Phase("hold") /\ SetsDraft(TRUE, "push") /\ Keeps /\ UNCHANGED prep

(* The lease is on what was fetched just before: it is always granted.     *)
CutPushes ==
  /\ Phase("push") /\ To("describe")
  /\ prep' = [prep EXCEPT ![cut.stage] = cut.made]
  /\ Keeps /\ UNCHANGED pr

(* open_or_update_pr: a PR is created with its body and its draft state; an
   existing one gets the body first, and answers with its draft state.     *)
CutDescribes ==
  /\ Phase("describe")
  /\ IF cut.found
     THEN /\ pr' = [pr EXCEPT ![cut.stage].body = cut.made]
          /\ cut' = [cut EXCEPT !.phase = "settle", !.draft = pr[cut.stage].draft]
     ELSE /\ pr' = [pr EXCEPT ![cut.stage] = [open |-> TRUE, draft |-> cut.made.hold,
                                              body |-> cut.made, byHand |-> FALSE]]
          /\ Done
  /\ Keeps /\ UNCHANGED prep

CutSettles ==
  /\ Phase("settle")
  /\ IF cut.draft = cut.made.hold THEN Done /\ UNCHANGED pr ELSE SetsDraft(cut.made.hold, "none")
  /\ Keeps /\ UNCHANGED prep

(* A dry run prints what it made, and ends here.                           *)
CutDryRuns == Phase("find") /\ Done /\ Keeps /\ UNCHANGED <<prep, pr>>

(* A call fails, or the run dies.                                          *)
CutStops == ~Phase("none") /\ Done /\ Keeps /\ UNCHANGED <<prep, pr>>
----------------------------------------------------------------------------
(* People.                                                                 *)

Clicks == clicks < MaxClicks /\ clicks' = clicks + 1

Lands(c, kind) ==
  /\ Len(line) < MaxCommits
  /\ \A i \in Positions("change", c) : \E j \in Positions("revert", c) : i < j
  /\ \A d \in Changes : d < c => kinds[d] # "none"
  /\ kinds[c] \in {"none", kind} /\ kinds' = [kinds EXCEPT ![c] = kind]
  /\ line' = Append(line, [what |-> "change", id |-> c])
  /\ UNCHANGED <<tags, cut, cuts, clicks, prep, pr, merged>>

Reverts(c) ==
  /\ Clicks /\ Len(line) < MaxCommits /\ Positions("revert", c) = {} /\ Positions("change", c) # {}
  /\ line' = Append(line, [what |-> "revert", id |-> c])
  /\ UNCHANGED <<kinds, tags, cut, cuts, prep, pr, merged>>

MarksReady(k) ==
  /\ Clicks /\ pr[k].open /\ pr[k].draft
  /\ pr' = [pr EXCEPT ![k].draft = FALSE, ![k].byHand = TRUE]
  /\ UNCHANGED <<line, kinds, tags, cut, cuts, prep, merged>>

(* Two sections on top of the same changelog conflict.                     *)
Merges(k) ==
  /\ pr[k].open /\ ~pr[k].draft /\ Len(line) < MaxCommits
  /\ SectionsAt(prep[k].pin) = MergedStages
  /\ line' = Append(line, [what |-> "notes", id |-> k])
  /\ pr' = [pr EXCEPT ![k] = NoPR]
  /\ merged' = [merged EXCEPT ![k] = <<prep[k], pr[k].body>>]
  /\ UNCHANGED <<kinds, tags, cut, cuts, clicks, prep>>

ClosesPR(k) ==
  /\ Clicks /\ pr[k].open /\ pr' = [pr EXCEPT ![k] = NoPR]
  /\ UNCHANGED <<line, kinds, tags, cut, cuts, prep, merged>>

(* A merged stage is tagged where it was merged, before any later one.     *)
TagsStage(k) ==
  /\ k \in MergedStages /\ \A j \in Stages : j >= k => tags[j] = 0
  /\ \E i \in Positions("notes", k) : tags' = [tags EXCEPT ![k] = i]
  /\ UNCHANGED <<line, kinds, cut, cuts, clicks, prep, pr, merged>>

CutNext ==
  \/ \E k \in Stages : CutStarts(k)
  \/ CutPins \/ CutGenerates \/ CutChecks \/ CutFinds \/ CutHolds
  \/ CutPushes \/ CutDescribes \/ CutSettles \/ CutDryRuns \/ CutStops
NotesNext ==
  \/ CutNext
  \/ \E c \in Changes : Reverts(c) \/ \E kind \in KindsOf(c) : Lands(c, kind)
  \/ \E k \in Stages : MarksReady(k) \/ Merges(k) \/ ClosesPR(k) \/ TagsStage(k)
NotesSpec == NotesInit /\ [][NotesNext]_notesVars
----------------------------------------------------------------------------
(* "This prevents a window where the PR has new content but retains its old
   body and ready-for-merge state" (release_cut._commit_push_release_pr): a
   PR that nobody marked ready by hand is ready only while its body is that
   of its content, and nothing in it asks for a maintainer, wherever a cut
   was cut short.                                                          *)
HeldUntilLooked ==
  \A k \in Stages :
    (pr[k].open /\ ~pr[k].draft /\ ~pr[k].byHand)
      => (pr[k].body = prep[k] /\ ~prep[k].hold)

(* No change is left out without a decision ("so no change is silently
   dropped", triage.py): once a release is merged, what landed before its cut
   last looked is in the notes; or the body that somebody merged lists it; or
   it was left out by a label or by the model's verdict, and that body counts
   it (docs/release-notes.md says that these are listed, too: they are not).
   Out of its reach: what landed between the last check of a cut and the
   merge of its PR, once that is tagged (Late); and a PR that was marked
   ready over a body of an earlier cut (Unseen).  A change that slipped
   through once does so again when it is reverted and lands anew: the tag's
   history has its number, so the later cut drops its note
   (released_pr_numbers).                                                  *)
Late(i) ==
  \E j \in MergedStages : tags[j] # 0 /\ merged[j][1].seen < i /\ i < Max(Positions("notes", j))
Unseen(i) == \E j \in MergedStages : merged[j][1] # merged[j][2] /\ i <= merged[j][1].seen
Slipped(c, i) == \E h \in Positions("change", c) : h <= i /\ (Late(h) \/ Unseen(h))
Told(c) ==
  \E j \in MergedStages : \/ \E credit \in {"source", "backport"} : <<c, credit>> \in merged[j][1].notes
                          \/ c \in merged[j][2].listed \union merged[j][2].counted
Accounted ==
  \A k \in MergedStages : \A c \in Changes : \A i \in Positions("change", c) :
    i <= merged[k][1].seen => (Told(c) \/ Slipped(c, i))

(* A PR is noted in one section of the changelog only, tagged or not, and
   in whatever order the stages' PRs are cut, re-cut and merged.           *)
NotedOnce ==
  \A j, k \in MergedStages : j # k => merged[j][1].notes \intersect merged[k][1].notes = {}

(* What makes HeldUntilLooked and NotedOnce inductive: from the push on, the
   stage's PR is not ready but by hand, and its branch and then its body are
   what the cut made; and what was made from a pin has neither a section nor
   a note that the changelog at that pin has.                              *)
Guarded ==
  cut.phase \in {"push", "describe", "settle"} =>
    (pr[cut.stage].open => (pr[cut.stage].draft \/ pr[cut.stage].byHand))
Pushed == cut.phase \in {"describe", "settle"} => prep[cut.stage] = cut.made
Described == cut.phase = "settle" => (pr[cut.stage].open => pr[cut.stage].body = cut.made)

NewStage(k, p) == p.pin <= Len(line) /\ k \notin SectionsAt(p.pin)
NewNotes(p) == \A j \in SectionsAt(p.pin) : p.notes \intersect merged[j][1].notes = {}
MadeNew ==
  /\ cut.phase \notin {"none", "pin"} => NewStage(cut.stage, cut.made)
  /\ cut.phase \notin {"none", "pin", "generate"} => NewNotes(cut.made)
PrepNew == \A k \in Stages : NewStage(k, prep[k]) /\ NewNotes(prep[k])

(* What makes Accounted inductive: a tag is where its stage was merged, and
   what is made from a pin tells of every change up to it, unless somebody
   was told of it before or it has slipped through; a cut has looked no
   further than its pin.                                                   *)
TagsAtMerges == \A j \in Stages : tags[j] # 0 => tags[j] \in Positions("notes", j)
Tells(p, c) ==
  \/ \E credit \in {"source", "backport"} : <<c, credit>> \in p.notes
  \/ c \in p.listed \union p.counted
Covers(p) ==
  /\ p.seen = p.pin
  /\ \A c \in Changes : \A i \in Positions("change", c) :
       i <= p.pin => (Tells(p, c) \/ Told(c) \/ Slipped(c, i))
MadeCovers == cut.phase \notin {"none", "pin", "generate"} => Covers(cut.made)
PrepCovers == \A k \in Stages : Covers(prep[k])
SeenIsPast == \A k \in MergedStages : merged[k][1].seen <= Len(line)

NotesInductive ==
  /\ NotesTypeOK
  /\ HeldUntilLooked /\ Guarded /\ Pushed /\ Described
  /\ NotedOnce /\ MadeNew /\ PrepNew
  /\ Accounted /\ TagsAtMerges /\ MadeCovers /\ PrepCovers /\ SeenIsPast
=============================================================================
