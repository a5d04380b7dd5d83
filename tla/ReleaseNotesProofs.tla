------------------------- MODULE ReleaseNotesProofs -------------------------
(***************************************************************************)
(* Proofs about ReleaseNotes, for every set of changes, number of stages,  *)
(* and every bound on commits, cuts and clicks.                            *)
(***************************************************************************)
EXTENDS ReleaseNotes, SequenceTheorems, WellFoundedInduction, TLAPS

-----------------------------------------------------------------------------
(* The sections of a line *)

(* What is appended to a line leaves what came before as it was.           *)
LEMMA PrefixKept ==
  ASSUME NEW S, NEW s \in Seq(S), NEW e \in S, NEW n \in Nat, n <= Len(s)
  PROVE  SubSeq(Append(s, e), 1, n) = SubSeq(s, 1, n)
<1>1. /\ Append(s, e) \in Seq(S) /\ Len(Append(s, e)) = Len(s) + 1
      /\ \A i \in 1..Len(s) : Append(s, e)[i] = s[i]
  OBVIOUS
<1>2. SubSeq(s, 1, n) = [i \in 1..n |-> s[i]]
  OBVIOUS
<1>3. SubSeq(Append(s, e), 1, n) = [i \in 1..n |-> Append(s, e)[i]]
  BY <1>1
<1> QED
  BY <1>1, <1>2, <1>3

LEMMA SectionsOfAll ==
  ASSUME NotesTypeOK
  PROVE  SectionsAt(Len(line)) = MergedStages
<1>1. line \in Seq(Entries)
  BY DEF NotesTypeOK
<1>2. SubSeq(line, 1, Len(line)) = line
  BY <1>1
<1> QED
  BY <1>2 DEF SectionsAt, MergedStages

LEMMA SectionsAreMerged ==
  ASSUME NotesTypeOK, NEW n \in Nat, n <= Len(line)
  PROVE  SectionsAt(n) \subseteq MergedStages /\ MergedStages \subseteq Stages
<1>1. line \in Seq(Entries) /\ DOMAIN line = 1..Len(line) /\ \A i \in 1..Len(line) : line[i] \in Entries
  BY DEF NotesTypeOK
<1>2. SubSeq(line, 1, n) = [i \in 1..n |-> line[i]] /\ 1..n \subseteq 1..Len(line)
  BY <1>1
<1>3. Range(SubSeq(line, 1, n)) \subseteq Range(line)
  BY <1>1, <1>2 DEF Range
<1>4. SectionsAt(n) \subseteq MergedStages
  BY <1>3 DEF SectionsAt, MergedStages, Sections
<1>5. \A e \in Range(line) : e \in Entries
  BY <1>1 DEF Range
<1>6. MergedStages \subseteq Stages
  BY <1>5 DEF MergedStages, Sections, Entries
<1> QED
  BY <1>4, <1>6

LEMMA LineGrows ==
  ASSUME NotesTypeOK, NEW e \in Entries, line' = Append(line, e)
  PROVE  /\ line' \in Seq(Entries) /\ Len(line') = Len(line) + 1
         /\ \A n \in Nat : n <= Len(line) => SubSeq(line', 1, n) = SubSeq(line, 1, n)
         /\ MergedStages' = MergedStages \union (IF e.what = "notes" THEN {e.id} ELSE {})
<1>1. line \in Seq(Entries) /\ DOMAIN line = 1..Len(line)
  BY DEF NotesTypeOK
<1>2. line' \in Seq(Entries) /\ Len(line') = Len(line) + 1 /\ DOMAIN line' = 1..(Len(line) + 1)
  BY <1>1
<1>3. \A n \in Nat : n <= Len(line) => SubSeq(line', 1, n) = SubSeq(line, 1, n)
  BY <1>1, PrefixKept
<1>4. \A i \in 1..(Len(line) + 1) : line'[i] = IF i <= Len(line) THEN line[i] ELSE e
  BY <1>1
<1>5. Range(line') = Range(line) \union {e}
  <2>1. Len(line) \in Nat /\ 1..(Len(line) + 1) = (1..Len(line)) \union {Len(line) + 1}
    BY <1>1
  <2> QED
    BY <1>1, <1>2, <1>4, <2>1 DEF Range
<1>6. MergedStages' = MergedStages \union (IF e.what = "notes" THEN {e.id} ELSE {})
  BY <1>5 DEF MergedStages, Sections
<1> QED
  BY <1>2, <1>3, <1>6
-----------------------------------------------------------------------------
(* Types *)

LEMMA ConstantTypes ==
  /\ {MaxStage, MaxCommits, MaxCuts, MaxClicks} \subseteq Nat \ {0}
  /\ MaxStage \in Stages /\ 1 \in Stages
BY NotesAssumption DEF Stages

(* What a cut makes is a product, whatever was decided.                    *)
LEMMA ProductTypes ==
  ASSUME NEW k \in Stages, NEW pin \in 0..MaxCommits, NEW v, DOMAIN v = Landed(k, pin),
         NEW doubt, NEW forced
  PROVE  /\ Product(v, k, pin, doubt, forced) \in Products
         /\ Product(v, k, pin, doubt, forced).pin = pin
         /\ Product(v, k, pin, doubt, forced).notes \intersect CreditedBefore(pin) = {}
<1>1. DOMAIN v \subseteq Changes /\ Reverted(k, pin) \subseteq Changes
  BY DEF Landed, Reverted
<1>2. NewBullets(v, k, pin) \subseteq Credited
  <2>1. By(v, 3, {"clean", "uncertain"}) \subseteq Changes
    BY <1>1 DEF By
  <2>2. \A d : Credit(d) \in {"source", "backport"}
    BY DEF Credit
  <2>3. \A c \in Changes, w \in {"source", "backport"} : <<c, w>> \in Credited
    BY DEF Credited
  <2>4. Bullets(v) \subseteq Credited
    BY <2>1, <2>2, <2>3 DEF Bullets
  <2> QED
    BY <2>4 DEF NewBullets
<1>3. Body(v, k, pin) \subseteq Changes
  <2>1. ReviewSections(v) \subseteq Changes
    BY <1>1 DEF ReviewSections, UnresolvedSections, BackportSection, CherryPickSection,
                TriageSections, SkippedSection, UncertainSection, By
  <2>2. NoNewNotesSection(v, k, pin) \subseteq Changes
    BY <1>1 DEF NoNewNotesSection, By
  <2> QED
    BY <1>1, <2>1, <2>2 DEF Body
<1>6. LeftOut(v) \subseteq Changes
  BY <1>1 DEF LeftOut, By
<1>4. ShouldHold(HoldReasons(v, k, pin, doubt), forced) \in BOOLEAN
  BY DEF ShouldHold
<1>5. NewBullets(v, k, pin) \intersect CreditedBefore(pin) = {}
  BY DEF NewBullets
<1> QED
  BY <1>2, <1>3, <1>4, <1>5, <1>6 DEF Product, Products

LEMMA NothingTypes == NoProduct \in Products /\ NoCut \in CutStates /\ NoPR \in PRStates
<1>1. NoProduct \in Products
  BY ConstantTypes DEF NoProduct, Products
<1>2. NoCut \in CutStates
  BY <1>1, ConstantTypes DEF NoCut, CutStates
<1>3. NoPR \in PRStates
  BY <1>1 DEF NoPR, PRStates
<1> QED
  BY <1>1, <1>2, <1>3

LEMMA InitTypes == NotesInit => NotesTypeOK
BY NothingTypes, ConstantTypes DEF NotesInit, NotesTypeOK

(* The cut's own steps.                                                    *)
LEMMA CutTypes ==
  ASSUME NotesTypeOK, CutNext
  PROVE  NotesTypeOK'
<1>0. NoCut \in CutStates /\ NoProduct \in Products
  BY NothingTypes
<1>a. cut \in CutStates /\ cut.stage \in Stages /\ cut.made \in Products
      /\ cut.made.pin \in 0..MaxCommits /\ cut.made.hold \in BOOLEAN /\ Len(line) \in 0..MaxCommits
  BY DEF NotesTypeOK, CutStates, Products
<1>b. pr \in [Stages -> PRStates] /\ pr[cut.stage] \in PRStates
  BY <1>a DEF NotesTypeOK
<1>c. ASSUME cut' \in CutStates, Keeps, pr' \in [Stages -> PRStates], prep' \in [Stages -> Products]
      PROVE  NotesTypeOK'
  BY <1>c DEF NotesTypeOK, Keeps
<1>d. ASSUME UNCHANGED <<prep, pr>>, Keeps, cut' \in CutStates
      PROVE  NotesTypeOK'
  BY <1>c, <1>d DEF NotesTypeOK
<1>e. Done => cut' \in CutStates
  BY <1>0 DEF Done
<1>f. \A draft \in BOOLEAN : [pr EXCEPT ![cut.stage].draft = draft, ![cut.stage].byHand = FALSE]
                               \in [Stages -> PRStates]
  BY <1>a, <1>b DEF PRStates
<1>1. ASSUME NEW k \in Stages, CutStarts(k) PROVE NotesTypeOK'
  <2>1. cut' \in CutStates
    BY <1>0, <1>1 DEF CutStarts, NoCut, CutStates
  <2>2. cuts' \in 0..MaxCuts
    BY <1>1, ConstantTypes DEF CutStarts, NotesTypeOK
  <2> QED
    BY <1>1, <2>1, <2>2 DEF CutStarts, NotesTypeOK
<1>2. CASE CutPins
  <2>1. [cut.made EXCEPT !.pin = Len(line)] \in Products
    BY <1>a DEF Products
  <2>2. [cut EXCEPT !.phase = "generate", !.made.pin = Len(line)] \in CutStates
    BY <1>a, <2>1 DEF CutStates
  <2> QED
    BY <1>d, <1>e, <1>2, <2>2 DEF CutPins
<1>3. CASE CutGenerates
  <2> DEFINE k == cut.stage  pin == cut.made.pin
  <2>1. CASE Done
    BY <1>d, <1>e, <1>3, <2>1 DEF CutGenerates
  <2>2. CASE ~Done
    <3>1. PICK v, doubt, forced :
             /\ DOMAIN v = Landed(k, pin)
             /\ cut' = [cut EXCEPT !.phase = "check", !.made = Product(v, k, pin, doubt, forced)]
      BY <1>3, <2>2 DEF CutGenerates
    <3>2. Product(v, k, pin, doubt, forced) \in Products
      BY <1>a, <3>1, ProductTypes
    <3>3. cut' \in CutStates
      BY <1>a, <3>1, <3>2 DEF CutStates
    <3> QED
      BY <1>d, <1>3, <3>3 DEF CutGenerates
  <2> QED
    BY <2>1, <2>2
<1>4. CASE CutChecks
  <2>1. [cut.made EXCEPT !.seen = Len(line)] \in Products
    BY <1>a DEF Products
  <2>2. [cut EXCEPT !.phase = "find", !.made.seen = Len(line)] \in CutStates
    BY <1>a, <2>1 DEF CutStates
  <2> QED
    BY <1>d, <1>e, <1>4, <2>2 DEF CutChecks
<1>5. CASE CutFinds
  <2>1. pr[cut.stage].open \in BOOLEAN /\ pr[cut.stage].draft \in BOOLEAN
    BY <1>b DEF PRStates
  <2>2. cut' \in CutStates
    BY <1>a, <1>5, <2>1 DEF CutFinds, CutStates
  <2> QED
    BY <1>d, <1>5, <2>2 DEF CutFinds
<1>6. CASE CutHolds
  <2>1. cut' \in CutStates
    BY <1>a, <1>e, <1>6 DEF CutHolds, SetsDraft, To, CutStates
  <2>2. pr' \in [Stages -> PRStates]
    BY <1>b, <1>f, <1>6 DEF CutHolds, SetsDraft
  <2> QED
    BY <1>c, <1>6, <2>1, <2>2 DEF CutHolds, NotesTypeOK
<1>7. CASE CutPushes
  <2>1. cut' \in CutStates
    BY <1>a, <1>7 DEF CutPushes, To, CutStates
  <2>2. prep' \in [Stages -> Products]
    BY <1>a, <1>7 DEF CutPushes, NotesTypeOK
  <2> QED
    BY <1>b, <1>c, <1>7, <2>1, <2>2 DEF CutPushes
<1>8. CASE CutDescribes
  <2>1. prep' \in [Stages -> Products] /\ Keeps
    BY <1>8 DEF CutDescribes, NotesTypeOK
  <2>2. CASE cut.found
    <3>1. pr[cut.stage].draft \in BOOLEAN
      BY <1>b DEF PRStates
    <3>2. cut' \in CutStates
      BY <1>a, <1>8, <2>2, <3>1 DEF CutDescribes, CutStates
    <3>3. [pr[cut.stage] EXCEPT !.body = cut.made] \in PRStates
      BY <1>a, <1>b DEF PRStates
    <3>4. pr' \in [Stages -> PRStates]
      BY <1>a, <1>b, <1>8, <2>2, <3>3 DEF CutDescribes
    <3> QED
      BY <1>c, <2>1, <3>2, <3>4
  <2>3. CASE ~cut.found
    <3>1. [open |-> TRUE, draft |-> cut.made.hold, body |-> cut.made, byHand |-> FALSE] \in PRStates
      BY <1>a DEF PRStates
    <3>2. pr' \in [Stages -> PRStates]
      BY <1>b, <1>8, <2>3, <3>1 DEF CutDescribes
    <3> QED
      BY <1>c, <1>e, <1>8, <2>1, <2>3, <3>2 DEF CutDescribes
  <2> QED
    BY <2>2, <2>3
<1>9. CASE CutSettles
  <2>1. Done /\ pr' \in [Stages -> PRStates]
    BY <1>a, <1>b, <1>f, <1>9 DEF CutSettles, SetsDraft
  <2> QED
    BY <1>c, <1>e, <1>9, <2>1 DEF CutSettles, NotesTypeOK
<1>10. CASE CutDryRuns \/ CutStops
  BY <1>d, <1>e, <1>10 DEF CutDryRuns, CutStops
<1> QED
  BY <1>1, <1>2, <1>3, <1>4, <1>5, <1>6, <1>7, <1>8, <1>9, <1>10 DEF CutNext

(* What people do.                                                         *)
LEMMA StepTypes ==
  ASSUME NotesTypeOK, [NotesNext]_notesVars
  PROVE  NotesTypeOK'
<1>1. CASE CutNext
  BY <1>1, CutTypes
<1>2. ASSUME NEW c \in Changes, Reverts(c) PROVE NotesTypeOK'
  <2>1. [what |-> "revert", id |-> c] \in Entries
    BY DEF Entries
  <2>2. line' \in Seq(Entries) /\ Len(line') = Len(line) + 1
    BY <1>2, <2>1, LineGrows DEF Reverts
  <2>3. Len(line') <= MaxCommits /\ clicks' \in 0..MaxClicks
    BY <1>2, <2>2, ConstantTypes DEF Reverts, Clicks, NotesTypeOK
  <2> QED
    BY <1>2, <2>2, <2>3 DEF Reverts, NotesTypeOK
<1>3. ASSUME NEW c \in Changes, NEW kind \in KindsOf(c), Lands(c, kind) PROVE NotesTypeOK'
  <2>1. [what |-> "change", id |-> c] \in Entries /\ kind \in Kinds
    BY NotesAssumption DEF Entries
  <2>2. line' \in Seq(Entries) /\ Len(line') = Len(line) + 1
    BY <1>3, <2>1, LineGrows DEF Lands
  <2>3. Len(line') <= MaxCommits
    BY <1>3, <2>2, ConstantTypes DEF Lands, NotesTypeOK
  <2>4. kinds' \in [Changes -> Kinds \union {"none"}]
    BY <1>3, <2>1 DEF Lands, NotesTypeOK
  <2> QED
    BY <1>3, <2>2, <2>3, <2>4 DEF Lands, NotesTypeOK
<1>4. ASSUME NEW k \in Stages, MarksReady(k) \/ ClosesPR(k) PROVE NotesTypeOK'
  <2>1. pr \in [Stages -> PRStates] /\ pr[k] \in PRStates /\ NoPR \in PRStates
    BY NothingTypes DEF NotesTypeOK
  <2>2. [pr[k] EXCEPT !.draft = FALSE, !.byHand = TRUE] \in PRStates
    BY <2>1 DEF PRStates
  <2>3. pr' \in [Stages -> PRStates]
    BY <1>4, <2>1, <2>2 DEF MarksReady, ClosesPR
  <2>4. clicks' \in 0..MaxClicks
    BY <1>4, ConstantTypes DEF MarksReady, ClosesPR, Clicks, NotesTypeOK
  <2> QED
    BY <1>4, <2>3, <2>4 DEF MarksReady, ClosesPR, NotesTypeOK
<1>5. ASSUME NEW k \in Stages, Merges(k) PROVE NotesTypeOK'
  <2>1. [what |-> "notes", id |-> k] \in Entries
    BY DEF Entries
  <2>2. line' \in Seq(Entries) /\ Len(line') = Len(line) + 1
    BY <1>5, <2>1, LineGrows DEF Merges
  <2>3. Len(line') <= MaxCommits
    BY <1>5, <2>2, ConstantTypes DEF Merges, NotesTypeOK
  <2>4. NoPR \in PRStates /\ pr[k].body \in Products
    BY NothingTypes DEF NotesTypeOK, PRStates
  <2>5. pr' \in [Stages -> PRStates] /\ merged' \in [Stages -> Products \X Products]
    BY <1>5, <2>4 DEF Merges, NotesTypeOK
  <2> QED
    BY <1>5, <2>2, <2>3, <2>5 DEF Merges, NotesTypeOK
<1>6. ASSUME NEW k \in Stages, TagsStage(k) PROVE NotesTypeOK'
  <2>1. \A i \in Positions("notes", k) : i \in 0..MaxCommits
    BY ConstantTypes DEF Positions, NotesTypeOK
  <2> QED
    BY <1>6, <2>1 DEF TagsStage, NotesTypeOK
<1>7. CASE UNCHANGED notesVars
  BY <1>7 DEF notesVars, NotesTypeOK
<1> QED
  BY <1>1, <1>2, <1>3, <1>4, <1>5, <1>6, <1>7 DEF NotesNext
-----------------------------------------------------------------------------
(* Drafts *)

HeldInductive == HeldUntilLooked /\ Guarded /\ Pushed /\ Described

(* A PR that is ready, by no hand, shows what its branch holds.            *)
Settled(k) ==
  (pr[k].open /\ ~pr[k].draft /\ ~pr[k].byHand) => (pr[k].body = prep[k] /\ ~prep[k].hold)

(* A step that leaves the PRs and branches alone, and after which the cut
   has pushed and described no more than it had.                           *)
LEMMA CutAdvances ==
  ASSUME HeldInductive, UNCHANGED <<prep, pr>>,
         \/ cut'.phase \notin {"push", "describe", "settle"}
         \/ UNCHANGED cut
  PROVE  HeldInductive'
BY DEF HeldInductive, HeldUntilLooked, Guarded, Pushed, Described

LEMMA HeldSteps ==
  ASSUME NotesTypeOK, HeldInductive, [NotesNext]_notesVars
  PROVE  HeldInductive'
<1> DEFINE s == cut.stage
<1>a. /\ s \in Stages /\ pr \in [Stages -> PRStates] /\ prep \in [Stages -> Products]
      /\ cut \in CutStates /\ \A k \in Stages : pr[k] \in PRStates /\ prep[k] \in Products
  BY DEF NotesTypeOK, CutStates
<1>b. /\ Guarded /\ Pushed /\ Described /\ \A k \in Stages : Settled(k)
  BY DEF HeldInductive, HeldUntilLooked, Settled
<1>c. (\A k \in Stages : Settled(k)') => HeldUntilLooked'
  BY DEF HeldUntilLooked, Settled
<1>d. Done => cut'.phase = "none"
  BY DEF Done, NoCut
(* The steps that leave PRs and branches alone.                            *)
<1>1. ASSUME NEW k \in Stages, CutStarts(k) PROVE HeldInductive'
  <2>1. cut'.phase = "pin"
    BY <1>1 DEF CutStarts, NoCut
  <2> QED
    BY <1>1, <2>1, CutAdvances DEF CutStarts
<1>2. CASE CutPins \/ CutGenerates \/ CutChecks \/ CutDryRuns \/ CutStops
  <2>1. cut'.phase \in {"none", "generate", "check", "find"}
    <3>1. CASE CutPins
      BY <1>a, <1>d, <3>1 DEF CutPins, CutStates
    <3>2. CASE CutGenerates
      BY <1>a, <1>d, <3>2 DEF CutGenerates, CutStates
    <3>3. CASE CutChecks
      BY <1>a, <1>d, <3>3 DEF CutChecks, CutStates
    <3>4. CASE CutDryRuns \/ CutStops
      BY <1>d, <3>4 DEF CutDryRuns, CutStops
    <3> QED
      BY <1>2, <3>1, <3>2, <3>3, <3>4
  <2>2. UNCHANGED <<prep, pr>>
    BY <1>2 DEF CutPins, CutGenerates, CutChecks, CutDryRuns, CutStops
  <2> QED
    BY <2>1, <2>2, CutAdvances
<1>3. ASSUME NEW c \in Changes, Reverts(c) \/ \E kind \in KindsOf(c) : Lands(c, kind)
      PROVE  HeldInductive'
  BY <1>3, CutAdvances DEF Reverts, Lands
<1>4. ASSUME NEW k \in Stages, TagsStage(k) PROVE HeldInductive'
  BY <1>4, CutAdvances DEF TagsStage
(* A ready PR goes through "hold".                                         *)
<1>5. CASE CutFinds
  <2>1. UNCHANGED <<prep, pr>> /\ cut'.stage = s /\ cut'.phase \in {"hold", "push"}
        /\ (cut'.phase = "push" => (pr[s].open => pr[s].draft))
    BY <1>a, <1>5 DEF CutFinds, CutStates
  <2>2. HeldUntilLooked'
    BY <2>1, <1>b, <1>c DEF Settled
  <2> QED
    BY <2>1, <2>2 DEF HeldInductive, Guarded, Pushed, Described
<1>6. CASE CutHolds
  <2>1. CASE pr[s].open
    <3>1. pr' = [pr EXCEPT ![s].draft = TRUE, ![s].byHand = FALSE] /\ UNCHANGED prep
          /\ cut' = [cut EXCEPT !.phase = "push"]
      BY <1>6, <2>1 DEF CutHolds, SetsDraft, To
    <3>2. pr'[s].draft /\ (\A k \in Stages \ {s} : pr'[k] = pr[k]) /\ cut'.phase = "push" /\ cut'.stage = s
      BY <1>a, <3>1 DEF PRStates, CutStates
    <3>3. HeldUntilLooked'
      BY <3>1, <3>2, <1>b, <1>c DEF Settled
    <3> QED
      BY <3>2, <3>3 DEF HeldInductive, Guarded, Pushed, Described
  <2>2. CASE ~pr[s].open
    BY <1>6, <1>d, <2>2, CutAdvances DEF CutHolds, SetsDraft
  <2> QED
    BY <2>1, <2>2
(* Its branch is replaced, and then its body.                              *)
<1>7. CASE CutPushes
  <2>1. /\ cut.phase = "push" /\ UNCHANGED pr /\ prep' = [prep EXCEPT ![s] = cut.made]
        /\ cut' = [cut EXCEPT !.phase = "describe"]
    BY <1>7 DEF CutPushes, To, Phase
  <2>2. /\ cut'.phase = "describe" /\ cut'.stage = s /\ cut'.made = cut.made
        /\ prep'[s] = cut.made /\ \A k \in Stages \ {s} : prep'[k] = prep[k]
    BY <1>a, <2>1 DEF CutStates
  <2>3. pr[s].open => (pr[s].draft \/ pr[s].byHand)
    BY <1>b, <2>1 DEF Guarded
  <2>4. HeldUntilLooked'
    BY <1>b, <1>c, <2>1, <2>2, <2>3 DEF Settled
  <2> QED
    BY <2>1, <2>2, <2>3, <2>4 DEF HeldInductive, Guarded, Pushed, Described
<1>8. CASE CutDescribes
  <2>1. cut.phase = "describe" /\ UNCHANGED prep
    BY <1>8 DEF CutDescribes, Phase
  <2>2. prep[s] = cut.made /\ (pr[s].open => (pr[s].draft \/ pr[s].byHand))
    BY <1>b, <2>1 DEF Guarded, Pushed
  <2>3. CASE cut.found
    <3>1. pr' = [pr EXCEPT ![s].body = cut.made]
          /\ cut' = [cut EXCEPT !.phase = "settle", !.draft = pr[cut.stage].draft]
      BY <1>8, <2>3 DEF CutDescribes
    <3>2. /\ pr'[s].open = pr[s].open /\ pr'[s].draft = pr[s].draft /\ pr'[s].byHand = pr[s].byHand
          /\ pr'[s].body = cut.made /\ \A k \in Stages \ {s} : pr'[k] = pr[k]
          /\ cut'.phase = "settle" /\ cut'.stage = s /\ cut'.made = cut.made
      BY <1>a, <3>1 DEF PRStates, CutStates
    <3>3. HeldUntilLooked'
      BY <1>b, <1>c, <2>1, <2>2, <3>2 DEF Settled
    <3> QED
      BY <2>1, <2>2, <3>2, <3>3 DEF HeldInductive, Guarded, Pushed, Described
  <2>4. CASE ~cut.found
    <3>1. Done /\ pr' = [pr EXCEPT ![s] = [open |-> TRUE, draft |-> cut.made.hold,
                                           body |-> cut.made, byHand |-> FALSE]]
      BY <1>8, <2>4 DEF CutDescribes
    <3>2. /\ pr'[s].draft = cut.made.hold /\ pr'[s].body = cut.made
          /\ \A k \in Stages \ {s} : pr'[k] = pr[k]
      BY <1>a, <3>1
    <3>3. HeldUntilLooked'
      BY <1>b, <1>c, <2>1, <2>2, <3>2 DEF Settled
    <3> QED
      BY <1>d, <3>1, <3>3 DEF HeldInductive, Guarded, Pushed, Described
  <2> QED
    BY <2>3, <2>4
<1>9. CASE CutSettles
  <2>1. cut.phase = "settle" /\ UNCHANGED prep /\ Done
    BY <1>9 DEF CutSettles, Phase, SetsDraft
  <2>2. CASE UNCHANGED pr
    BY <1>d, <2>1, <2>2, CutAdvances
  <2>3. CASE ~UNCHANGED pr
    <3>1. pr[s].open /\ pr' = [pr EXCEPT ![s].draft = cut.made.hold, ![s].byHand = FALSE]
      BY <1>9, <2>3 DEF CutSettles, SetsDraft
    <3>2. /\ pr'[s].draft = cut.made.hold /\ pr'[s].body = pr[s].body
          /\ \A k \in Stages \ {s} : pr'[k] = pr[k]
      BY <1>a, <3>1 DEF PRStates
    <3>3. pr[s].body = cut.made /\ prep[s] = cut.made
      BY <1>b, <2>1, <3>1 DEF Pushed, Described
    <3>4. HeldUntilLooked'
      BY <1>b, <1>c, <2>1, <3>2, <3>3 DEF Settled
    <3> QED
      BY <1>d, <2>1, <3>4 DEF HeldInductive, Guarded, Pushed, Described
  <2> QED
    BY <2>2, <2>3
(* People mark a PR ready, merge it, close it.                             *)
<1>10. ASSUME NEW k \in Stages, MarksReady(k) PROVE HeldInductive'
  <2>1. UNCHANGED <<cut, prep>> /\ pr' = [pr EXCEPT ![k].draft = FALSE, ![k].byHand = TRUE]
    BY <1>10 DEF MarksReady
  <2>2. /\ pr'[k].byHand /\ pr'[k].body = pr[k].body /\ pr'[k].open = pr[k].open
        /\ \A j \in Stages \ {k} : pr'[j] = pr[j]
    BY <1>a, <2>1 DEF PRStates
  <2>3. HeldUntilLooked'
    BY <1>b, <1>c, <2>1, <2>2 DEF Settled
  <2>4. Guarded' /\ Pushed' /\ Described'
    BY <1>a, <1>b, <2>1, <2>2 DEF Guarded, Pushed, Described
  <2> QED
    BY <2>3, <2>4 DEF HeldInductive
<1>11. ASSUME NEW k \in Stages, Merges(k) \/ ClosesPR(k) PROVE HeldInductive'
  <2>1. UNCHANGED <<cut, prep>> /\ pr' = [pr EXCEPT ![k] = NoPR]
    BY <1>11 DEF Merges, ClosesPR
  <2>2. ~pr'[k].open /\ \A j \in Stages \ {k} : pr'[j] = pr[j]
    BY <1>a, <2>1 DEF NoPR
  <2>3. HeldUntilLooked'
    BY <1>b, <1>c, <2>1, <2>2 DEF Settled
  <2>4. Guarded' /\ Pushed' /\ Described'
    BY <1>a, <1>b, <2>1, <2>2 DEF Guarded, Pushed, Described
  <2> QED
    BY <2>3, <2>4 DEF HeldInductive
<1>12. CASE UNCHANGED notesVars
  BY <1>12, CutAdvances DEF notesVars
<1> QED
  BY <1>1, <1>2, <1>3, <1>4, <1>5, <1>6, <1>7, <1>8, <1>9, <1>10, <1>11, <1>12 DEF NotesNext, CutNext

-----------------------------------------------------------------------------
(* Notes *)

NotedInductive == NotedOnce /\ MadeNew /\ PrepNew

(* Both forms of the version file refuse a stage that the line has.        *)
LEMMA StageIsNew ==
  ASSUME NEW k \in Stages, Progresses(k, line), ~AlreadyCut(k, line)
  PROVE  k \notin MergedStages
<1>1. CASE RecordsStage
  BY <1>1 DEF Progresses, MergedStages, Stages
<1>2. CASE ~RecordsStage
  BY <1>2 DEF AlreadyCut, MergedStages
<1> QED
  BY <1>1, <1>2, NotesAssumption

(* What is new at its pin stays so on a line that only grows, while the
   sections that were merged keep their notes.                             *)
Keeping ==
  /\ Len(line) \in Nat /\ Len(line') \in Nat /\ Len(line) <= Len(line')
  /\ \A n \in Nat : n <= Len(line) => SubSeq(line', 1, n) = SubSeq(line, 1, n)
  /\ \A j \in MergedStages : merged'[j] = merged[j]

LEMMA StaysNew ==
  ASSUME NotesTypeOK, Keeping, NEW k \in Stages, NEW p \in Products, NewStage(k, p)
  PROVE  /\ p.pin <= Len(line') /\ k \notin Sections(SubSeq(line', 1, p.pin))
         /\ NewNotes(p) => \A j \in Sections(SubSeq(line', 1, p.pin)) :
                              p.notes \intersect merged'[j][1].notes = {}
<1>1. p.pin \in Nat /\ p.pin <= Len(line)
  BY ConstantTypes DEF NewStage, Products
<1>2. SubSeq(line', 1, p.pin) = SubSeq(line, 1, p.pin) /\ p.pin <= Len(line')
  BY <1>1 DEF Keeping
<1>3. SectionsAt(p.pin) \subseteq MergedStages
  BY <1>1, SectionsAreMerged
<1> QED
  BY <1>1, <1>2, <1>3 DEF NewStage, NewNotes, SectionsAt, Keeping

(* So do the branches and the cut, when a step leaves both alone.          *)
LEMMA PrepStays ==
  ASSUME NotesTypeOK, Keeping, PrepNew, UNCHANGED prep
  PROVE  PrepNew'
<1> SUFFICES ASSUME NEW k \in Stages PROVE (NewStage(k, prep[k]) /\ NewNotes(prep[k]))'
  BY DEF PrepNew
<1>1. prep[k] \in Products /\ NewStage(k, prep[k]) /\ NewNotes(prep[k])
  BY DEF PrepNew, NotesTypeOK
<1> QED
  BY <1>1, StaysNew DEF NewStage, NewNotes, SectionsAt

LEMMA MadeStays ==
  ASSUME NotesTypeOK, Keeping, MadeNew, UNCHANGED cut
  PROVE  MadeNew'
<1>1. cut.made \in Products /\ cut.stage \in Stages
  BY DEF NotesTypeOK, CutStates
<1>2. cut.phase \notin {"none", "pin"} => (NewStage(cut.stage, cut.made))'
  BY <1>1, StaysNew DEF MadeNew, NewStage, SectionsAt
<1>3. cut.phase \notin {"none", "pin", "generate"} => (NewNotes(cut.made))'
  BY <1>1, StaysNew DEF MadeNew, NewNotes, SectionsAt
<1> QED
  BY <1>2, <1>3 DEF MadeNew

LEMMA OnceStays ==
  ASSUME NotedOnce, MergedStages' = MergedStages, \A j \in MergedStages : merged'[j] = merged[j]
  PROVE  NotedOnce'
BY DEF NotedOnce

(* A step that adds no section.                                            *)
LEMMA NoSection ==
  ASSUME NotesTypeOK, NEW e \in Entries, e.what # "notes", line' = Append(line, e), UNCHANGED merged
  PROVE  Keeping /\ MergedStages' = MergedStages
<1>1. line \in Seq(Entries) /\ Len(line) \in Nat
  BY DEF NotesTypeOK
<1>2. /\ Len(line') = Len(line) + 1 /\ MergedStages' = MergedStages
      /\ \A n \in Nat : n <= Len(line) => SubSeq(line', 1, n) = SubSeq(line, 1, n)
  BY LineGrows
<1> QED
  BY <1>1, <1>2 DEF Keeping

LEMMA SameLine ==
  ASSUME NotesTypeOK, UNCHANGED <<line, merged>>
  PROVE  Keeping /\ MergedStages' = MergedStages
<1>1. line \in Seq(Entries)
  BY DEF NotesTypeOK
<1> QED
  BY <1>1 DEF Keeping, MergedStages

LEMMA NotedSteps ==
  ASSUME NotesTypeOK, NotesTypeOK', NotedInductive, [NotesNext]_notesVars
  PROVE  NotedInductive'
<1>a. NotedOnce /\ MadeNew /\ PrepNew /\ line \in Seq(Entries) /\ Len(line) \in Nat
      /\ cut \in CutStates /\ cut.made \in Products /\ cut.stage \in Stages
  BY DEF NotedInductive, NotesTypeOK, CutStates
<1>b. Done => MadeNew'
  BY DEF Done, NoCut, MadeNew
<1>c. ASSUME UNCHANGED <<line, merged, prep>>, MadeNew' PROVE NotedInductive'
  <2>1. Keeping /\ MergedStages' = MergedStages
    BY <1>c, SameLine
  <2> QED
    BY <1>a, <1>c, <2>1, PrepStays, OnceStays DEF NotedInductive
<1>d. ASSUME UNCHANGED <<line, merged, prep>>, cut'.stage = cut.stage, cut'.made.pin = cut.made.pin,
             cut'.made.notes = cut.made.notes, cut.phase \notin {"none", "pin", "generate"}
      PROVE  NotedInductive'
  <2>1. NewStage(cut.stage, cut.made) /\ NewNotes(cut.made)
    BY <1>a, <1>d DEF MadeNew
  <2>2. MadeNew'
    BY <1>d, <2>1 DEF MadeNew, NewStage, NewNotes, SectionsAt
  <2> QED
    BY <1>c, <1>d, <2>2
<1>1. ASSUME NEW k \in Stages, CutStarts(k) PROVE NotedInductive'
  <2>1. MadeNew'
    BY <1>1 DEF CutStarts, NoCut, MadeNew
  <2> QED
    BY <1>1, <1>c, <2>1 DEF CutStarts
(* At the pin, the stage is not in the changelog.                          *)
<1>2. CASE CutPins
  <2>1. CASE Done
    BY <1>2, <1>b, <1>c, <2>1 DEF CutPins, Keeps
  <2>2. CASE ~Done
    <3>1. /\ Progresses(cut.stage, line) /\ ~AlreadyCut(cut.stage, line)
          /\ cut' = [cut EXCEPT !.phase = "generate", !.made.pin = Len(line)] /\ Keeps /\ UNCHANGED prep
      BY <1>2, <2>2 DEF CutPins
    <3>2. cut.stage \notin Sections(SubSeq(line, 1, Len(line)))
      BY <1>a, <3>1, StageIsNew, SectionsOfAll DEF SectionsAt
    <3>3. cut'.phase = "generate" /\ cut'.stage = cut.stage /\ cut'.made.pin = Len(line)
      BY <1>a, <3>1 DEF CutStates, Products
    <3>4. UNCHANGED <<line, merged, prep>>
      BY <3>1 DEF Keeps
    <3>5. MadeNew'
      BY <1>a, <3>2, <3>3, <3>4 DEF MadeNew, NewStage, SectionsAt
    <3> QED
      BY <1>c, <3>4, <3>5
  <2> QED
    BY <2>1, <2>2
(* What the changelog at the pin credits is not noted again.               *)
<1>3. CASE CutGenerates
  <2>1. UNCHANGED <<line, merged, prep>> /\ cut.phase = "generate"
    BY <1>3 DEF CutGenerates, Keeps, Phase
  <2>2. CASE Done
    BY <1>b, <1>c, <2>1, <2>2
  <2>3. CASE ~Done
    <3> DEFINE k == cut.stage  pin == cut.made.pin
    <3>1. PICK v, doubt, forced :
             /\ DOMAIN v = Landed(k, pin)
             /\ cut' = [cut EXCEPT !.phase = "check", !.made = Product(v, k, pin, doubt, forced)]
      BY <1>3, <2>3 DEF CutGenerates
    <3>2. pin \in 0..MaxCommits
      BY <1>a DEF Products
    <3>3. /\ Product(v, k, pin, doubt, forced).pin = pin
          /\ Product(v, k, pin, doubt, forced).notes \intersect CreditedBefore(pin) = {}
      BY <1>a, <3>1, <3>2, ProductTypes
    <3>4. cut'.stage = k /\ cut'.made.pin = pin /\ cut'.made.notes \intersect CreditedBefore(pin) = {}
      BY <1>a, <3>1, <3>3 DEF CutStates
    <3>5. NewStage(cut.stage, cut.made)
      BY <1>a, <2>1 DEF MadeNew
    <3>6. (NewStage(cut.stage, cut.made))'
      BY <2>1, <3>4, <3>5 DEF NewStage, SectionsAt
    <3>7. (NewNotes(cut.made))'
      BY <2>1, <3>4 DEF NewNotes, CreditedBefore, SectionsAt
    <3>8. MadeNew'
      BY <3>6, <3>7 DEF MadeNew
    <3> QED
      BY <1>c, <2>1, <3>8
  <2> QED
    BY <2>2, <2>3
<1>4. CASE CutChecks
  <2>1. UNCHANGED <<line, merged, prep>> /\ cut.phase = "check"
    BY <1>4 DEF CutChecks, Keeps, Phase
  <2>2. CASE Done
    BY <1>b, <1>c, <2>1, <2>2
  <2>3. CASE ~Done
    <3>1. cut' = [cut EXCEPT !.phase = "find", !.made.seen = Len(line)]
      BY <1>4, <2>3 DEF CutChecks
    <3>2. cut'.stage = cut.stage /\ cut'.made.pin = cut.made.pin /\ cut'.made.notes = cut.made.notes
      BY <1>a, <3>1 DEF CutStates, Products
    <3> QED
      BY <1>d, <2>1, <3>2
  <2> QED
    BY <2>2, <2>3
<1>5. CASE CutFinds \/ CutHolds \/ CutDescribes \/ CutSettles \/ CutDryRuns \/ CutStops
  <2>1. UNCHANGED <<line, merged, prep>>
    BY <1>5 DEF CutFinds, CutHolds, CutDescribes, CutSettles, CutDryRuns, CutStops, Keeps
  <2>2. CASE Done
    BY <1>b, <1>c, <2>1, <2>2
  <2>3. CASE ~Done
    <3>1. cut.phase \in {"find", "hold", "describe"} /\ cut'.stage = cut.stage /\ cut'.made = cut.made
      <4>1. CASE CutFinds
        BY <1>a, <4>1 DEF CutFinds, Phase, CutStates
      <4>2. CASE CutHolds
        BY <1>a, <2>3, <4>2 DEF CutHolds, SetsDraft, To, Phase, CutStates
      <4>3. CASE CutDescribes
        BY <1>a, <2>3, <4>3 DEF CutDescribes, Phase, CutStates
      <4>4. CASE CutSettles \/ CutDryRuns \/ CutStops
        BY <2>3, <4>4 DEF CutSettles, SetsDraft, CutDryRuns, CutStops
      <4> QED
        BY <1>5, <4>1, <4>2, <4>3, <4>4
    <3> QED
      BY <1>d, <2>1, <3>1
  <2> QED
    BY <2>2, <2>3
<1>6. CASE CutPushes
  <2>1. /\ UNCHANGED <<line, merged>> /\ cut.phase = "push"
        /\ cut' = [cut EXCEPT !.phase = "describe"] /\ prep' = [prep EXCEPT ![cut.stage] = cut.made]
    BY <1>6 DEF CutPushes, Keeps, Phase, To
  <2>2. NewStage(cut.stage, cut.made) /\ NewNotes(cut.made)
    BY <2>1, <1>a DEF MadeNew
  <2>3. /\ cut'.stage = cut.stage /\ cut'.made = cut.made /\ prep'[cut.stage] = cut.made
        /\ \A k \in Stages \ {cut.stage} : prep'[k] = prep[k]
    BY <1>a, <2>1 DEF CutStates, NotesTypeOK
  <2>4. MadeNew'
    BY <2>1, <2>2, <2>3 DEF MadeNew, NewStage, NewNotes, SectionsAt
  <2>5. \A k \in Stages : NewStage(k, prep'[k]) /\ NewNotes(prep'[k])
    BY <1>a, <2>2, <2>3 DEF PrepNew
  <2>6. PrepNew'
    BY <2>1, <2>5 DEF PrepNew, NewStage, NewNotes, SectionsAt
  <2>7. NotedOnce'
    BY <1>a, <2>1, SameLine, OnceStays
  <2> QED
    BY <2>4, <2>6, <2>7 DEF NotedInductive
<1>7. ASSUME NEW c \in Changes, Reverts(c) \/ \E kind \in KindsOf(c) : Lands(c, kind)
      PROVE  NotedInductive'
  <2>1. PICK e \in Entries : e.what # "notes" /\ line' = Append(line, e)
    <3>1. [what |-> "change", id |-> c] \in Entries /\ [what |-> "revert", id |-> c] \in Entries
      BY DEF Entries
    <3> QED
      BY <1>7, <3>1 DEF Reverts, Lands
  <2>2. UNCHANGED <<merged, prep, cut>>
    BY <1>7 DEF Reverts, Lands
  <2>3. Keeping /\ MergedStages' = MergedStages
    BY <2>1, <2>2, NoSection
  <2> QED
    BY <1>a, <2>2, <2>3, PrepStays, MadeStays, OnceStays DEF NotedInductive, Keeping
(* The one step that adds a section: the branch is on top of all of them.  *)
<1>8. ASSUME NEW k \in Stages, Merges(k) PROVE NotedInductive'
  <2>1. /\ SectionsAt(prep[k].pin) = MergedStages /\ line' = Append(line, [what |-> "notes", id |-> k])
        /\ merged' = [merged EXCEPT ![k] = <<prep[k], pr[k].body>>] /\ UNCHANGED <<prep, cut>>
    BY <1>8 DEF Merges
  <2>2. k \notin MergedStages /\ \A j \in MergedStages : prep[k].notes \intersect merged[j][1].notes = {}
    BY <1>a, <2>1 DEF PrepNew, NewStage, NewNotes
  <2>3. MergedStages \subseteq Stages
    BY <1>a, SectionsAreMerged
  <2>4. /\ merged'[k][1] = prep[k] /\ \A j \in MergedStages : merged'[j] = merged[j]
    BY <2>1, <2>2, <2>3 DEF NotesTypeOK
  <2>5. /\ Len(line') = Len(line) + 1 /\ MergedStages' = MergedStages \union {k}
        /\ \A n \in Nat : n <= Len(line) => SubSeq(line', 1, n) = SubSeq(line, 1, n)
    <3>1. [what |-> "notes", id |-> k] \in Entries
      BY DEF Entries
    <3> QED
      BY <2>1, <3>1, LineGrows
  <2>6. Keeping
    BY <1>a, <2>4, <2>5 DEF Keeping
  <2>7. NotedOnce'
    <3> SUFFICES ASSUME NEW i \in MergedStages \union {k}, NEW j \in MergedStages \union {k}, i # j
                 PROVE  merged'[i][1].notes \intersect merged'[j][1].notes = {}
      BY <2>5 DEF NotedOnce
    <3> QED
      BY <1>a, <2>2, <2>4 DEF NotedOnce
  <2> QED
    BY <1>a, <2>1, <2>6, <2>7, PrepStays, MadeStays DEF NotedInductive
<1>9. ASSUME NEW k \in Stages, MarksReady(k) \/ ClosesPR(k) \/ TagsStage(k) PROVE NotedInductive'
  <2>1. UNCHANGED <<line, merged, prep, cut>>
    BY <1>9 DEF MarksReady, ClosesPR, TagsStage
  <2>2. MadeNew'
    BY <1>a, <2>1, SameLine, MadeStays
  <2> QED
    BY <1>c, <2>1, <2>2
<1>10. CASE UNCHANGED notesVars
  <2>1. UNCHANGED <<line, merged, prep, cut>>
    BY <1>10 DEF notesVars
  <2>2. MadeNew'
    BY <1>a, <2>1, SameLine, MadeStays
  <2> QED
    BY <1>c, <2>1, <2>2
<1> QED
  BY <1>1, <1>2, <1>3, <1>4, <1>5, <1>6, <1>7, <1>8, <1>9, <1>10 DEF NotesNext, CutNext

-----------------------------------------------------------------------------
(* Accounts *)

AccountInductive == Accounted /\ TagsAtMerges /\ MadeCovers /\ PrepCovers /\ SeenIsPast

LEMMA GreatestNumber ==
  ASSUME NEW N \in Nat, NEW S \in SUBSET (0..N), S # {}
  PROVE  Max(S) \in S /\ \A y \in S : y <= Max(S)
<1> DEFINE T == {N - x : x \in S}
<1>1. T \subseteq Nat /\ T # {}
  OBVIOUS
<1>2. IsWellFoundedOn(OpToRel(<, Nat), Nat)
  BY NatLessThanWellFounded
<1>3. PICK t \in T : \A u \in T : ~(<<u, t>> \in OpToRel(<, Nat))
  BY <1>1, <1>2, WFMin
<1>4. OpToRel(<, Nat) = {ss \in Nat \X Nat : ss[1] < ss[2]}
  BY Zenon DEF OpToRel
<1>5. \A u \in T : ~(<<u, t>> \in {ss \in Nat \X Nat : ss[1] < ss[2]})
  BY <1>3, <1>4, Zenon
<1>6. \A u \in T : t <= u
  <2> TAKE u \in T
  <2>1. u \in Nat /\ t \in Nat
    BY <1>1
  <2>2. ~(u < t)
    BY <1>5, <2>1
  <2> QED
    BY <2>1, <2>2
<1>7. PICK x \in S : t = N - x
  OBVIOUS
<1>8. \A y \in S : x >= y
  <2> TAKE y \in S
  <2>1. N - x <= N - y
    BY <1>6, <1>7
  <2>2. x \in Nat /\ y \in Nat
    OBVIOUS
  <2> HIDE DEF T
  <2> QED
    BY <2>1, <2>2
<1> HIDE DEF T
<1>9. Max(S) \in S /\ \A y \in S : Max(S) >= y
  BY <1>8 DEF Max
<1> QED
  BY <1>9

LEMMA PositionTypes ==
  ASSUME NotesTypeOK, NEW what, NEW c
  PROVE  /\ Positions(what, c) \subseteq 1..Len(line) /\ Positions(what, c) \subseteq 0..MaxCommits
         /\ \A i \in Positions(what, c) : i \in Nat /\ 1 <= i /\ line[i].what = what /\ line[i].id = c
<1>1. line \in Seq(Entries) /\ DOMAIN line = 1..Len(line) /\ Len(line) \in Nat /\ Len(line) <= MaxCommits
  BY DEF NotesTypeOK
<1>2. Positions(what, c) \subseteq 1..Len(line)
  BY <1>1 DEF Positions
<1>3. MaxCommits \in Nat
  BY ConstantTypes
<1>4. 1..Len(line) \subseteq 0..MaxCommits
  BY <1>1, <1>3
<1> QED
  BY <1>1, <1>2, <1>4 DEF Positions

(* A commit of the line stays where it is.                                 *)
LEMMA PositionsGrow ==
  ASSUME NotesTypeOK, NEW e \in Entries, line' = Append(line, e), NEW what, NEW c
  PROVE  Positions(what, c)'
           = Positions(what, c) \union {i \in {Len(line) + 1} : e.what = what /\ e.id = c}
<1>1. line \in Seq(Entries) /\ DOMAIN line = 1..Len(line) /\ Len(line) \in Nat
  BY DEF NotesTypeOK
<1>2. DOMAIN line' = 1..(Len(line) + 1) /\ 1..(Len(line) + 1) = (1..Len(line)) \union {Len(line) + 1}
  BY <1>1
<1>3. line'[Len(line) + 1] = e /\ \A i \in 1..Len(line) : line'[i] = line[i] /\ i # Len(line) + 1
  BY <1>1
<1> QED
  BY <1>1, <1>2, <1>3 DEF Positions

LEMMA MergedIsPlaced ==
  ASSUME NotesTypeOK, NEW j \in Stages
  PROVE  j \in MergedStages <=> Positions("notes", j) # {}
<1>1. line \in Seq(Entries) /\ DOMAIN line = 1..Len(line)
  BY DEF NotesTypeOK
<1> QED
  BY <1>1 DEF MergedStages, Sections, Positions, Range

(* Nothing that was told, or that slipped through, is forgotten: merges and
   tags are for good, and the line only grows.                             *)
Remembers ==
  /\ MergedStages \subseteq MergedStages'
  /\ \A j \in MergedStages :
       /\ merged'[j] = merged[j]
       /\ Positions("notes", j)' = Positions("notes", j)
       /\ tags[j] # 0 => tags'[j] = tags[j]
  /\ \A c \in Changes :
       /\ Positions("change", c) \subseteq Positions("change", c)'
       /\ \A i \in Positions("change", c)' : i \in Positions("change", c) \/ i = Len(line) + 1

LEMMA ToldStays ==
  ASSUME Remembers, NEW c \in Changes, Told(c)
  PROVE  Told(c)'
BY DEF Remembers, Told

LEMMA SlippedStays ==
  ASSUME Remembers, NEW c \in Changes, NEW i, Slipped(c, i)
  PROVE  Slipped(c, i)'
<1>1. PICK h \in Positions("change", c) : h <= i /\ (Late(h) \/ Unseen(h))
  BY DEF Slipped
<1>2. Late(h) => Late(h)'
  BY DEF Remembers, Late
<1>3. Unseen(h) => Unseen(h)'
  BY DEF Remembers, Unseen
<1>4. h \in Positions("change", c)'
  BY DEF Remembers
<1> QED
  BY <1>1, <1>2, <1>3, <1>4 DEF Slipped

(* What p covers, it covers after a step as well.                          *)
CoversThen(p) ==
  /\ p.seen = p.pin
  /\ \A c \in Changes : \A i \in Positions("change", c)' :
       i <= p.pin => (Tells(p, c) \/ Told(c)' \/ Slipped(c, i)')

LEMMA CoversStays ==
  ASSUME NotesTypeOK, Remembers, NEW p \in Products, p.pin <= Len(line), Covers(p)
  PROVE  CoversThen(p)
<1>1. p.pin \in Nat /\ Len(line) \in Nat
  BY ConstantTypes DEF Products, NotesTypeOK
<1> SUFFICES ASSUME NEW c \in Changes, NEW i \in Positions("change", c)', i <= p.pin
             PROVE  Tells(p, c) \/ Told(c)' \/ Slipped(c, i)'
  BY DEF Covers, CoversThen
<1>2. i \in Positions("change", c)
  BY <1>1 DEF Remembers
<1>3. Tells(p, c) \/ Told(c) \/ Slipped(c, i)
  BY <1>2 DEF Covers
<1> QED
  BY <1>3, ToldStays, SlippedStays


LEMMA OldSeen ==
  ASSUME NotesTypeOK
  PROVE  \A k \in MergedStages : merged[k][1].seen \in Nat
<1>1. Len(line) \in Nat
  BY DEF NotesTypeOK
<1>2. MergedStages \subseteq Stages
  BY <1>1, SectionsAreMerged
<1>3. \A k \in Stages : merged[k][1] \in Products
  BY DEF NotesTypeOK
<1>4. \A p \in Products : p.seen \in Nat
  BY ConstantTypes DEF Products
<1> QED
  BY <1>2, <1>3, <1>4

(* What was merged before is accounted for as before.                      *)
LEMMA OldAccounts ==
  ASSUME NotesTypeOK, Remembers, Accounted, SeenIsPast
  PROVE  \A k \in MergedStages : \A c \in Changes : \A i \in Positions("change", c)' :
           i <= merged'[k][1].seen => (Told(c)' \/ Slipped(c, i)')
<1> SUFFICES ASSUME NEW k \in MergedStages, NEW c \in Changes, NEW i \in Positions("change", c)',
                    i <= merged'[k][1].seen
             PROVE  Told(c)' \/ Slipped(c, i)'
  OBVIOUS
<1>1. merged[k][1].seen \in Nat /\ merged[k][1].seen <= Len(line) /\ Len(line) \in Nat
  BY OldSeen DEF SeenIsPast, NotesTypeOK
<1>2. merged'[k][1].seen = merged[k][1].seen
  BY DEF Remembers
<1>3. i \in Positions("change", c)
  BY <1>1, <1>2 DEF Remembers
<1>4. Told(c) \/ Slipped(c, i)
  BY <1>2, <1>3 DEF Accounted
<1> QED
  BY <1>4, ToldStays, SlippedStays

LEMMA AccountedStays ==
  ASSUME NotesTypeOK, Remembers, Accounted, SeenIsPast, MergedStages' = MergedStages,
         Len(line') \in Nat, Len(line) <= Len(line')
  PROVE  Accounted' /\ SeenIsPast'
<1>1. Accounted'
  BY OldAccounts DEF Accounted
<1>2. \A k \in MergedStages : merged[k][1].seen \in Nat /\ merged'[k] = merged[k]
  BY OldSeen DEF Remembers
<1>3. Len(line) \in Nat
  BY DEF NotesTypeOK
<1>4. SeenIsPast'
  BY <1>2, <1>3 DEF SeenIsPast
<1> QED
  BY <1>1, <1>4

LEMMA SameRemembers ==
  ASSUME UNCHANGED <<line, merged, tags>>
  PROVE  Remembers /\ MergedStages' = MergedStages
BY DEF Remembers, MergedStages, Positions

(* A change or a revert lands.                                             *)
LEMMA LandingRemembers ==
  ASSUME NotesTypeOK, NEW e \in Entries, e.what # "notes", line' = Append(line, e),
         UNCHANGED <<merged, tags>>
  PROVE  Remembers /\ MergedStages' = MergedStages
<1>1. MergedStages' = MergedStages
  BY NoSection
<1>2. \A j \in MergedStages : Positions("notes", j)' = Positions("notes", j)
  <2> TAKE j \in MergedStages
  <2>1. Positions("notes", j)'
          = Positions("notes", j) \union {i \in {Len(line) + 1} : e.what = "notes" /\ e.id = j}
    BY PositionsGrow
  <2> QED
    BY <2>1
<1>3. \A c \in Changes : /\ Positions("change", c) \subseteq Positions("change", c)'
                         /\ \A i \in Positions("change", c)' :
                              i \in Positions("change", c) \/ i = Len(line) + 1
  BY PositionsGrow
<1> QED
  BY <1>1, <1>2, <1>3 DEF Remembers

(* What the base has of a change was told or has slipped through: a tag is
   where its stage was merged, and what came before it was either seen by
   the stage's cut or came too late for it.                                *)
LEMMA BelowTheBase ==
  ASSUME NotesTypeOK, Accounted, TagsAtMerges, NEW k \in Stages, NEW c \in Changes,
         NEW h \in Positions("change", c), h <= Base(k)
  PROVE  Told(c) \/ Slipped(c, h)
<1> DEFINE known == {j \in Stages : tags[j] # 0}
<1>1. h \in Nat /\ 1 <= h /\ line[h].what = "change"
  BY PositionTypes
<1>2. k # 1 /\ known # {} /\ Base(k) = tags[Max(known)]
  BY <1>1 DEF Base
<1>3. known \in SUBSET (0..MaxStage) /\ MaxStage \in Nat
  BY ConstantTypes DEF Stages
<1>4. Max(known) \in known
  BY <1>2, <1>3, GreatestNumber
<1>5. PICK j \in Stages : j = Max(known) /\ tags[j] # 0
  BY <1>4
<1> HIDE DEF known
<1>6. tags[j] \in Positions("notes", j) /\ h <= tags[j]
  BY <1>2, <1>5 DEF TagsAtMerges
<1>7. j \in MergedStages
  BY <1>6, MergedIsPlaced
<1>8. tags[j] \in Nat /\ line[tags[j]].what = "notes"
  BY <1>6, PositionTypes
<1>9. h < tags[j]
  BY <1>1, <1>6, <1>8
<1>10. tags[j] <= Max(Positions("notes", j)) /\ Max(Positions("notes", j)) \in Nat
  <2>1. Positions("notes", j) \in SUBSET (0..MaxCommits) /\ MaxCommits \in Nat
    BY PositionTypes, ConstantTypes
  <2>2. \A y \in Positions("notes", j) : y <= Max(Positions("notes", j))
    BY <1>6, <2>1, GreatestNumber
  <2>3. Max(Positions("notes", j)) \in Positions("notes", j)
    BY <1>6, <2>1, GreatestNumber
  <2> QED
    BY <1>6, <2>1, <2>2, <2>3
<1>11. h < Max(Positions("notes", j))
  BY <1>1, <1>8, <1>9, <1>10
<1>12. merged[j][1].seen \in Nat
  <2>1. merged[j][1] \in Products
    BY DEF NotesTypeOK
  <2> QED
    BY <2>1, ConstantTypes DEF Products
<1>13. CASE h <= merged[j][1].seen
  BY <1>7, <1>13 DEF Accounted
<1>14. CASE merged[j][1].seen < h
  <2>1. Late(h)
    BY <1>5, <1>7, <1>11, <1>14 DEF Late
  <2> QED
    BY <1>1, <2>1 DEF Slipped
<1> QED
  BY <1>1, <1>12, <1>13, <1>14

(* A verdict ends in a bullet, in a section of the body, or in its counts. *)
LEMMA VerdictsEnd ==
  ASSUME NEW v, NEW c \in DOMAIN v, v[c] \in Verdicts(c)
  PROVE  \/ c \in ReviewSections(v) \union LeftOut(v)
         \/ <<c, Credit(v[c][1])>> \in Bullets(v)
<1>1. CASE v[c][1] \in {"unresolved", "unresolved pr"}
  BY <1>1 DEF ReviewSections, UnresolvedSections, By
<1>2. CASE v[c][1] \notin {"unresolved", "unresolved pr"}
  <2>0. \A d \in Discovered(c) \ Credits : v[c] # <<d, "none", "none">>
    <3> SUFFICES ASSUME NEW d \in Discovered(c) \ Credits, v[c] = <<d, "none", "none">>
                 PROVE  FALSE
      OBVIOUS
    <3>1. d \in {"unresolved", "unresolved pr"}
      BY DEF Discovered, Credits, SourceRecovered
    <3>2. v[c][1] = d
      OBVIOUS
    <3> QED
      BY <1>2, <3>1, <3>2
  <2>1. /\ v[c] \in (Discovered(c) \intersect Credits) \X Triaged(c) \X (Written \union {"none"})
        /\ v[c][2] \in Noting <=> v[c][3] # "none"
    BY <2>0 DEF Verdicts
  <2>2. v[c][2] \in Triaged(c) /\ v[c][3] \in Written \union {"none"}
    BY <2>1
  <2>3. CASE v[c][2] \notin Noting
    <3>1. v[c][2] \in {"label excluded", "ai excluded", "undecided"}
      BY <2>2, <2>3 DEF Triaged, Noting
    <3> QED
      BY <3>1 DEF LeftOut, TriageSections, ReviewSections, By
  <2>4. CASE v[c][3] = "skipped"
    BY <2>4 DEF ReviewSections, SkippedSection, By
  <2>5. CASE v[c][3] \in {"clean", "uncertain"}
    BY <2>5 DEF Bullets, By
  <2> QED
    BY <2>1, <2>2, <2>3, <2>4, <2>5 DEF Written
<1> QED
  BY <1>1, <1>2

(* What a cut makes covers the line up to its pin.                         *)
LEMMA ProductCovers ==
  ASSUME NotesTypeOK, Accounted, TagsAtMerges, NEW k \in Stages, NEW pin \in 0..MaxCommits,
         pin <= Len(line), NEW v, DOMAIN v = Landed(k, pin),
         \A c \in Landed(k, pin) : v[c] \in Verdicts(c), NEW doubt, NEW forced
  PROVE  Covers(Product(v, k, pin, doubt, forced))
<1> DEFINE p == Product(v, k, pin, doubt, forced)
<1>1. /\ p.seen = p.pin /\ p.pin = pin
      /\ p.notes = NewBullets(v, k, pin) /\ p.listed = Body(v, k, pin)
      /\ p.counted = LeftOut(v)
  BY DEF Product
<1> SUFFICES ASSUME NEW c \in Changes, NEW i \in Positions("change", c), i <= pin
             PROVE  Tells(p, c) \/ Told(c) \/ Slipped(c, i)
  BY <1>1 DEF Covers
<1> HIDE DEF p
<1>2. i \in Nat /\ pin \in Nat
  BY PositionTypes, ConstantTypes
<1>3. Base(k) \in Nat
  <2>1. 0 \in Nat /\ \A j \in Stages : tags[j] \in Nat
    BY ConstantTypes DEF NotesTypeOK
  <2> DEFINE known == {j \in Stages : tags[j] # 0}
  <2>2. known # {} => Max(known) \in known
    <3>1. known \in SUBSET (0..MaxStage) /\ MaxStage \in Nat
      BY ConstantTypes DEF Stages
    <3> QED
      BY <3>1, GreatestNumber
  <2> QED
    BY <2>1, <2>2 DEF Base
<1>4. CASE i <= Base(k)
  BY <1>4, BelowTheBase
<1>5. CASE Base(k) < i /\ c \in Reverted(k, pin)
  BY <1>1, <1>5 DEF Body, Tells
<1>6. CASE Base(k) < i /\ c \notin Reverted(k, pin)
  <2>1. c \in Landed(k, pin)
    BY <1>6 DEF Landed, InRange
  <2>2. c \in DOMAIN v /\ v[c] \in Verdicts(c)
    BY <2>1
  <2>3. CASE c \in ReviewSections(v) \union LeftOut(v)
    BY <1>1, <2>3 DEF Body, Tells
  <2>4. CASE <<c, Credit(v[c][1])>> \in NewBullets(v, k, pin)
    <3>1. Credit(v[c][1]) \in {"source", "backport"}
      BY DEF Credit
    <3> QED
      BY <1>1, <2>4, <3>1 DEF Tells
  <2>5. CASE <<c, Credit(v[c][1])>> \in CreditedBefore(pin)
    <3>1. PICK j \in SectionsAt(pin) : <<c, Credit(v[c][1])>> \in merged[j][1].notes
      BY <2>5 DEF CreditedBefore
    <3>2. j \in MergedStages
      BY <1>2, SectionsAreMerged
    <3>3. Credit(v[c][1]) \in {"source", "backport"}
      BY DEF Credit
    <3> QED
      BY <3>1, <3>2, <3>3 DEF Told
  <2>6. CASE <<c, Credit(v[c][1])>> \in ReleasedAt(Base(k))
    <3>1. PICK h \in Positions("change", c) : h <= Base(k)
      BY <2>6 DEF ReleasedAt
    <3>2. Told(c) \/ Slipped(c, h)
      BY <3>1, BelowTheBase
    <3>3. h \in Nat
      BY PositionTypes
    <3>4. h < i
      BY <1>2, <1>3, <1>6, <3>1, <3>3
    <3>5. Slipped(c, h) => Slipped(c, i)
      <4> SUFFICES ASSUME NEW g \in Positions("change", c), g <= h, Late(g) \/ Unseen(g)
                   PROVE  Slipped(c, i)
        BY DEF Slipped
      <4>1. g \in Nat
        BY PositionTypes
      <4>2. g <= i
        BY <1>2, <3>3, <3>4, <4>1
      <4> QED
        BY <4>2 DEF Slipped
    <3> QED
      BY <3>2, <3>5
  <2>7. \/ c \in ReviewSections(v) \union LeftOut(v)
        \/ <<c, Credit(v[c][1])>> \in Bullets(v)
    BY <2>2, VerdictsEnd
  <2> QED
    BY <2>3, <2>4, <2>5, <2>6, <2>7 DEF NewBullets
<1> QED
  BY <1>2, <1>3, <1>4, <1>5, <1>6 DEF p

LEMMA AccountSteps ==
  ASSUME NotesTypeOK, NotesTypeOK', NotedInductive, AccountInductive, [NotesNext]_notesVars
  PROVE  AccountInductive'
<1> DEFINE Early == {"none", "pin", "generate"}
<1>a. /\ Accounted /\ TagsAtMerges /\ MadeCovers /\ PrepCovers /\ SeenIsPast /\ MadeNew /\ PrepNew
      /\ line \in Seq(Entries) /\ Len(line) \in Nat /\ Len(line') \in Nat
      /\ cut \in CutStates /\ cut.made \in Products /\ cut.stage \in Stages
      /\ prep \in [Stages -> Products]
  BY DEF AccountInductive, NotedInductive, NotesTypeOK, CutStates
<1>b. Done => MadeCovers'
  BY DEF Done, NoCut, MadeCovers
<1>c. cut.phase \notin Early => Covers(cut.made) /\ cut.made.pin <= Len(line)
  BY <1>a DEF MadeCovers, MadeNew, NewStage
<1>p. ASSUME Remembers PROVE \A k \in Stages : CoversThen(prep[k])
  <2> TAKE k \in Stages
  <2>1. prep[k] \in Products /\ Covers(prep[k]) /\ prep[k].pin <= Len(line)
    BY <1>a DEF PrepCovers, PrepNew, NewStage
  <2> QED
    BY <1>p, <2>1, CoversStays
<1>q. ASSUME Remembers, UNCHANGED prep PROVE PrepCovers'
  BY <1>p, <1>q DEF PrepCovers, Covers, CoversThen, Tells
<1>m. ASSUME Remembers, cut'.phase \in Early \/ (cut.phase \notin Early /\ cut'.made = cut.made)
      PROVE  MadeCovers'
  <2>1. CASE cut'.phase \in Early
    BY <2>1 DEF MadeCovers
  <2>2. CASE cut.phase \notin Early /\ cut'.made = cut.made
    <3>1. CoversThen(cut.made)
      BY <1>a, <1>c, <1>m, <2>2, CoversStays
    <3> QED
      BY <2>2, <3>1 DEF MadeCovers, Covers, CoversThen, Tells
  <2> QED
    BY <1>m, <2>1, <2>2
<1>s. ASSUME UNCHANGED <<line, merged, tags>>
      PROVE  Remembers /\ Accounted' /\ TagsAtMerges' /\ SeenIsPast'
  <2>1. Remembers /\ MergedStages' = MergedStages
    BY <1>s, SameRemembers
  <2>2. Accounted' /\ SeenIsPast'
    BY <1>a, <1>s, <2>1, AccountedStays
  <2>3. TagsAtMerges'
    BY <1>a, <1>s DEF TagsAtMerges, Positions
  <2> QED
    BY <2>1, <2>2, <2>3
<1>t. ASSUME UNCHANGED <<line, merged, tags, prep>>, MadeCovers' PROVE AccountInductive'
  BY <1>q, <1>s, <1>t DEF AccountInductive
<1>1. CASE (\E k \in Stages : CutStarts(k)) \/ CutPins \/ CutDryRuns \/ CutStops
  <2>1. UNCHANGED <<line, merged, tags, prep>>
    BY <1>1 DEF CutStarts, CutPins, CutDryRuns, CutStops, Keeps
  <2>2. cut'.phase \in Early
    <3>1. ASSUME NEW k \in Stages, CutStarts(k) PROVE cut'.phase \in Early
      BY <3>1 DEF CutStarts, NoCut
    <3>2. CASE CutPins
      <4>1. CASE Done
        BY <4>1 DEF Done, NoCut
      <4>2. CASE cut' = [cut EXCEPT !.phase = "generate", !.made.pin = Len(line)]
        BY <1>a, <4>2 DEF CutStates
      <4> QED
        BY <3>2, <4>1, <4>2 DEF CutPins
    <3>3. CASE CutDryRuns \/ CutStops
      BY <3>3 DEF CutDryRuns, CutStops, Done, NoCut
    <3> QED
      BY <1>1, <3>1, <3>2, <3>3
  <2> QED
    BY <1>t, <2>1, <2>2 DEF MadeCovers
(* What is made covers what there was at the pin.                          *)
<1>2. CASE CutGenerates
  <2>1. UNCHANGED <<line, merged, tags, prep>> /\ cut.phase = "generate"
    BY <1>2 DEF CutGenerates, Keeps, Phase
  <2>2. CASE Done
    BY <1>b, <1>t, <2>1, <2>2
  <2>3. CASE ~Done
    <3> DEFINE k == cut.stage  pin == cut.made.pin
    <3>1. PICK v, doubt, forced :
             /\ DOMAIN v = Landed(k, pin) /\ \A c \in Landed(k, pin) : v[c] \in Verdicts(c)
             /\ cut' = [cut EXCEPT !.phase = "check", !.made = Product(v, k, pin, doubt, forced)]
      BY <1>2, <2>3 DEF CutGenerates
    <3>2. pin \in 0..MaxCommits /\ pin <= Len(line)
      BY <1>a, <2>1 DEF MadeNew, NewStage, Products
    <3>3. /\ Product(v, k, pin, doubt, forced) \in Products
          /\ Product(v, k, pin, doubt, forced).pin = pin
      BY <1>a, <3>1, <3>2, ProductTypes
    <3>4. Covers(Product(v, k, pin, doubt, forced))
      BY <1>a, <3>1, <3>2, ProductCovers
    <3>5. CoversThen(Product(v, k, pin, doubt, forced))
      BY <1>s, <2>1, <3>2, <3>3, <3>4, CoversStays
    <3>6. cut'.made = Product(v, k, pin, doubt, forced)
      BY <1>a, <3>1 DEF CutStates
    <3>7. Covers(cut.made)'
      BY <3>5, <3>6 DEF Covers, CoversThen, Tells
    <3> QED
      BY <1>t, <2>1, <3>7 DEF MadeCovers
  <2> QED
    BY <2>2, <2>3
(* The last look finds the line at the pin, or the cut ends.               *)
<1>3. CASE CutChecks
  <2>1. UNCHANGED <<line, merged, tags, prep>> /\ cut.phase = "check"
    BY <1>3 DEF CutChecks, Keeps, Phase
  <2>2. CASE Done
    BY <1>b, <1>t, <2>1, <2>2
  <2>3. CASE ~Done
    <3>1. Len(line) = cut.made.pin /\ cut' = [cut EXCEPT !.phase = "find", !.made.seen = Len(line)]
      BY <1>3, <2>3 DEF CutChecks
    <3>2. cut.made.seen = cut.made.pin
      BY <1>c, <2>1 DEF Covers
    <3>3. [cut.made EXCEPT !.seen = Len(line)] = cut.made
      BY <1>a, <3>1, <3>2 DEF Products
    <3>4. cut'.made = cut.made
      BY <1>a, <3>1, <3>3 DEF CutStates
    <3> QED
      BY <1>m, <1>s, <1>t, <2>1, <3>4
  <2> QED
    BY <2>2, <2>3
<1>4. CASE CutFinds \/ CutHolds \/ CutDescribes \/ CutSettles
  <2>1. UNCHANGED <<line, merged, tags, prep>>
    BY <1>4 DEF CutFinds, CutHolds, CutDescribes, CutSettles, Keeps
  <2>2. CASE Done
    BY <1>b, <1>t, <2>1, <2>2
  <2>3. CASE ~Done
    <3>1. cut.phase \in {"find", "hold", "describe"} /\ cut'.made = cut.made
      <4>1. CASE CutFinds
        BY <1>a, <4>1 DEF CutFinds, Phase, CutStates
      <4>2. CASE CutHolds
        BY <1>a, <2>3, <4>2 DEF CutHolds, SetsDraft, To, Phase, CutStates
      <4>3. CASE CutDescribes
        BY <1>a, <2>3, <4>3 DEF CutDescribes, Phase, CutStates
      <4>4. CASE CutSettles
        BY <2>3, <4>4 DEF CutSettles, SetsDraft
      <4> QED
        BY <1>4, <4>1, <4>2, <4>3, <4>4
    <3> QED
      BY <1>m, <1>s, <1>t, <2>1, <3>1
  <2> QED
    BY <2>2, <2>3
<1>5. CASE CutPushes
  <2>1. /\ UNCHANGED <<line, merged, tags>> /\ cut.phase = "push"
        /\ cut' = [cut EXCEPT !.phase = "describe"] /\ prep' = [prep EXCEPT ![cut.stage] = cut.made]
    BY <1>5 DEF CutPushes, Keeps, Phase, To
  <2>2. /\ cut'.made = cut.made /\ prep'[cut.stage] = cut.made
        /\ \A k \in Stages \ {cut.stage} : prep'[k] = prep[k]
    BY <1>a, <2>1 DEF CutStates
  <2>3. CoversThen(cut.made)
    BY <1>a, <1>c, <1>s, <2>1, CoversStays
  <2>4. \A k \in Stages : CoversThen(prep'[k])
    BY <1>p, <1>s, <2>1, <2>2, <2>3
  <2>5. PrepCovers'
    BY <2>4 DEF PrepCovers, Covers, CoversThen, Tells
  <2>6. MadeCovers'
    BY <1>m, <1>s, <2>1, <2>2
  <2> QED
    BY <1>s, <2>1, <2>5, <2>6 DEF AccountInductive
<1>6. ASSUME NEW c \in Changes, Reverts(c) \/ \E kind \in KindsOf(c) : Lands(c, kind)
      PROVE  AccountInductive'
  <2>1. PICK e \in Entries : e.what # "notes" /\ line' = Append(line, e)
    <3>1. [what |-> "change", id |-> c] \in Entries /\ [what |-> "revert", id |-> c] \in Entries
      BY DEF Entries
    <3> QED
      BY <1>6, <3>1 DEF Reverts, Lands
  <2>2. UNCHANGED <<merged, tags, prep, cut>>
    BY <1>6 DEF Reverts, Lands
  <2>3. Remembers /\ MergedStages' = MergedStages
    BY <2>1, <2>2, LandingRemembers
  <2>4. Len(line') = Len(line) + 1
    BY <1>a, <2>1
  <2>5. Accounted' /\ SeenIsPast'
    BY <1>a, <2>3, <2>4, AccountedStays
  <2>6. TagsAtMerges'
    <3>1. \A j \in Stages : Positions("notes", j) \subseteq Positions("notes", j)'
      BY <2>1, PositionsGrow
    <3> QED
      BY <1>a, <2>2, <3>1 DEF TagsAtMerges
  <2>7. PrepCovers' /\ MadeCovers'
    BY <1>m, <1>q, <2>2, <2>3
  <2> QED
    BY <2>5, <2>6, <2>7 DEF AccountInductive
(* What the branch covers is accounted for once it is merged, under the body
   that the PR had.                                                        *)
<1>7. ASSUME NEW k \in Stages, Merges(k) PROVE AccountInductive'
  <2>1. /\ SectionsAt(prep[k].pin) = MergedStages /\ line' = Append(line, [what |-> "notes", id |-> k])
        /\ merged' = [merged EXCEPT ![k] = <<prep[k], pr[k].body>>] /\ UNCHANGED <<prep, cut, tags>>
    BY <1>7 DEF Merges
  <2>2. k \notin MergedStages
    BY <1>a, <2>1 DEF PrepNew, NewStage
  <2>3. MergedStages \subseteq Stages /\ [what |-> "notes", id |-> k] \in Entries
    BY <1>a, SectionsAreMerged, SectionsOfAll DEF Entries
  <2>4. /\ merged'[k] = <<prep[k], pr[k].body>> /\ \A j \in MergedStages : merged'[j] = merged[j]
    BY <2>1, <2>2, <2>3 DEF NotesTypeOK
  <2>5. Len(line') = Len(line) + 1 /\ MergedStages' = MergedStages \union {k}
    BY <2>1, <2>3, LineGrows
  <2>6. \A j \in MergedStages : Positions("notes", j)' = Positions("notes", j)
    <3> TAKE j \in MergedStages
    <3>1. Positions("notes", j)' = Positions("notes", j) \union {i \in {Len(line) + 1} : k = j}
      BY <2>1, <2>3, PositionsGrow
    <3> QED
      BY <2>2, <3>1
  <2>7. \A c \in Changes : Positions("change", c)' = Positions("change", c)
    <3> TAKE c \in Changes
    <3>1. Positions("change", c)'
            = Positions("change", c) \union {i \in {Len(line) + 1} : "notes" = "change" /\ k = c}
      BY <2>1, <2>3, PositionsGrow
    <3> QED
      BY <3>1
  <2>8. Remembers
    BY <2>1, <2>4, <2>5, <2>6, <2>7 DEF Remembers
  <2>9. Covers(prep[k]) /\ CoversThen(prep[k]) /\ prep[k].pin <= Len(line) /\ prep[k] \in Products
    BY <1>a, <1>p, <2>8 DEF PrepCovers, PrepNew, NewStage
  <2>10. Accounted'
    <3>1. ASSUME NEW c \in Changes, NEW i \in Positions("change", c)', i <= merged'[k][1].seen
          PROVE  Told(c)' \/ Slipped(c, i)'
      <4>1. Tells(prep[k], c) \/ Told(c)' \/ Slipped(c, i)'
        BY <2>4, <2>9, <3>1 DEF CoversThen
      <4>2. CASE \E credit \in {"source", "backport"} : <<c, credit>> \in prep[k].notes
        BY <2>4, <2>5, <4>2 DEF Told
      <4>3. CASE c \in prep[k].listed \union prep[k].counted /\ pr[k].body = prep[k]
        BY <2>4, <2>5, <4>3 DEF Told
      <4>4. CASE pr[k].body # prep[k]
        <5>1. Unseen(i)'
          BY <2>4, <2>5, <3>1, <4>4 DEF Unseen
        <5>2. i \in Nat
          BY <2>7, PositionTypes
        <5> QED
          BY <5>1, <5>2 DEF Slipped
      <4> QED
        BY <4>1, <4>2, <4>3, <4>4 DEF Tells
    <3>2. \A j \in MergedStages : \A c \in Changes : \A i \in Positions("change", c)' :
             i <= merged'[j][1].seen => (Told(c)' \/ Slipped(c, i)')
      BY <1>a, <2>4, <2>8, OldAccounts
    <3> QED
      BY <2>5, <3>1, <3>2 DEF Accounted
  <2>11. SeenIsPast'
    <3>1. \A j \in MergedStages : merged[j][1].seen \in Nat /\ merged[j][1].seen <= Len(line)
      BY <1>a, OldSeen DEF SeenIsPast
    <3>2. prep[k].seen <= Len(line) /\ prep[k].seen \in Nat
      BY <2>9, ConstantTypes DEF Covers, Products
    <3> QED
      BY <1>a, <2>4, <2>5, <3>1, <3>2 DEF SeenIsPast
  <2>12. TagsAtMerges'
    <3>1. \A j \in Stages : Positions("notes", j) \subseteq Positions("notes", j)'
      BY <2>1, <2>3, PositionsGrow
    <3> QED
      BY <1>a, <2>1, <3>1 DEF TagsAtMerges
  <2>13. PrepCovers' /\ MadeCovers'
    BY <1>m, <1>q, <2>1, <2>8
  <2> QED
    BY <2>10, <2>11, <2>12, <2>13 DEF AccountInductive
<1>8. ASSUME NEW k \in Stages, TagsStage(k) PROVE AccountInductive'
  <2>1. /\ UNCHANGED <<line, merged, prep, cut>> /\ tags[k] = 0
        /\ \E i \in Positions("notes", k) : tags' = [tags EXCEPT ![k] = i]
    <3>1. k >= k
      BY DEF Stages
    <3> QED
      BY <1>8, <3>1 DEF TagsStage
  <2>2. tags \in [Stages -> 0..MaxCommits]
    BY DEF NotesTypeOK
  <2>3. tags'[k] \in Positions("notes", k) /\ \A j \in Stages \ {k} : tags'[j] = tags[j]
    BY <2>1, <2>2
  <2>4. MergedStages' = MergedStages /\ \A what, c : Positions(what, c)' = Positions(what, c)
    BY <2>1 DEF MergedStages, Positions
  <2>5. Remembers
    <3>1. MergedStages \subseteq Stages
      BY <1>a, SectionsAreMerged, SectionsOfAll
    <3> QED
      BY <2>1, <2>3, <2>4, <3>1 DEF Remembers
  <2>6. Accounted' /\ SeenIsPast'
    BY <1>a, <2>1, <2>4, <2>5, AccountedStays
  <2>7. TagsAtMerges'
    BY <1>a, <2>3, <2>4 DEF TagsAtMerges
  <2>8. PrepCovers' /\ MadeCovers'
    BY <1>m, <1>q, <2>1, <2>5
  <2> QED
    BY <2>6, <2>7, <2>8 DEF AccountInductive
<1>9. CASE (\E k \in Stages : MarksReady(k) \/ ClosesPR(k)) \/ UNCHANGED notesVars
  <2>1. UNCHANGED <<line, merged, tags, prep, cut>>
    BY <1>9 DEF MarksReady, ClosesPR, notesVars
  <2>2. MadeCovers'
    BY <1>m, <1>s, <2>1
  <2> QED
    BY <1>t, <2>1, <2>2
<1> QED
  BY <1>1, <1>2, <1>3, <1>4, <1>5, <1>6, <1>7, <1>8, <1>9 DEF NotesNext, CutNext

-----------------------------------------------------------------------------
(* The theorems *)

LEMMA InductiveInit == NotesInit => HeldInductive /\ NotedInductive /\ AccountInductive
<1> SUFFICES ASSUME NotesInit PROVE HeldInductive /\ NotedInductive /\ AccountInductive
  OBVIOUS
<1>1. HeldInductive
  BY DEF NotesInit, NoCut, NoPR, HeldInductive, HeldUntilLooked, Guarded, Pushed, Described
<1>2. line = <<>> /\ Len(line) = 0 /\ SubSeq(line, 1, 0) = <<>>
  BY DEF NotesInit
<1>3. MergedStages = {} /\ SectionsAt(0) = {}
  BY <1>2 DEF MergedStages, SectionsAt, Sections, Range
<1>4. PrepNew
  BY <1>2, <1>3 DEF NotesInit, PrepNew, NewStage, NewNotes, NoProduct
<1>5. MadeNew /\ NotedOnce
  BY <1>3 DEF NotesInit, MadeNew, NoCut, NotedOnce
<1>6. \A what, c : Positions(what, c) = {}
  BY <1>2 DEF Positions
<1>7. Accounted /\ SeenIsPast
  BY <1>3 DEF Accounted, SeenIsPast
<1>8. TagsAtMerges /\ MadeCovers /\ PrepCovers
  BY <1>6 DEF NotesInit, TagsAtMerges, MadeCovers, PrepCovers, Covers, NoCut, NoProduct
<1> QED
  BY <1>1, <1>4, <1>5, <1>7, <1>8 DEF NotedInductive, AccountInductive

(* The cut's invariant, types included: from its push on, a stage's PR is not
   ready but by hand, and its branch and body are what the cut made; what was
   made from a pin has neither a section nor a note of the changelog there,
   and tells of every change up to the pin that was not told of before.    *)
THEOREM NotesAreInductive == NotesSpec => []NotesInductive
<1> DEFINE Inv == NotesTypeOK /\ HeldInductive /\ NotedInductive /\ AccountInductive
<1>1. NotesInit => Inv
  BY InitTypes, InductiveInit
<1>2. Inv /\ [NotesNext]_notesVars => Inv'
  BY StepTypes, HeldSteps, NotedSteps, AccountSteps
<1>3. Inv => NotesInductive
  BY DEF HeldInductive, NotedInductive, AccountInductive, NotesInductive
<1> QED
  BY <1>1, <1>2, <1>3, PTL DEF NotesSpec

(* Whatever a cut was doing when it died, and whatever people did since: a
   release PR that nobody marked ready by hand is ready only over the body of
   its content, which holds nothing for a maintainer to look at.           *)
THEOREM ReadyWasLookedAt == NotesSpec => []HeldUntilLooked
<1>1. NotesInductive => HeldUntilLooked
  BY DEF NotesInductive
<1> QED
  BY <1>1, NotesAreInductive, PTL

(* Nothing is noted in two sections of the changelog, in whatever order the
   stages are cut, re-cut, merged and tagged, and whether the line's version
   file records the stage or only the version.                             *)
THEOREM NothingNotedTwice == NotesSpec => []NotedOnce
<1>1. NotesInductive => NotedOnce
  BY DEF NotesInductive
<1> QED
  BY <1>1, NotesAreInductive, PTL

(* Once a release is merged, every change that its cut could see is in some
   section's notes, or listed in a body that somebody merged, or left out by
   its label or by the model's verdict and counted there, whatever is
   reverted, landed again, re-cut, closed and tagged; but for what landed
   behind the back of a cut, or was told only in a body that nobody saw.   *)
THEOREM NothingDroppedInSilence == NotesSpec => []Accounted
<1>1. NotesInductive => Accounted
  BY DEF NotesInductive
<1> QED
  BY <1>1, NotesAreInductive, PTL
=============================================================================
