------------------------------- MODULE Corpus -------------------------------
(***************************************************************************)
(* The knowledge corpus (packages/knowledge ingest.ts and service.ts,      *)
(* tables packs, knowledge_chunks and knowledge_coverage_gaps of migration *)
(* 0004).  Ingests, one transaction per batch, and publications run beside *)
(* each other and beside the questions answered from the corpus.  A batch  *)
(* here is one section: a larger one makes more of a run all or nothing.   *)
(***************************************************************************)
EXTENDS Integers, Sequences, FiniteSets

CONSTANTS Ingests,     \* runs of ingestDirectory
          Directories, \* what they read: see BeginIngest
          PackRuns,    \* calls of publishPack and rollbackPack
          Versions,    \* pack versions they may name
          Questions,   \* calls of ground
          AsOfDays,    \* the as-of dates they ask for
          Horizon,     \* verification_horizon_days
          CurrentDay   \* the day all of it happens

\* Days are counted from 1; a directory is of a version there may be.
ASSUME CorpusConstants ==
  /\ \A dir \in Directories : dir.version \in Versions /\ dir.from \in Nat \ {0}
  /\ IsFiniteSet(Questions)

VARIABLES packs,      \* table packs: version -> status
          chunks,     \* table knowledge_chunks
          ingests, packRuns, questions,
          gaps        \* table knowledge_coverage_gaps: row -> its count

corpusVars == <<packs, chunks, ingests, packRuns, questions, gaps>>

\* effective_to IS NULL, and no open version.
Open  == -1
NoRow == [id |-> "none", version |-> 0, text |-> "none"]
NoIngest == [pc |-> "idle", dir |-> CHOOSE d \in Directories : TRUE, left |-> <<>>, seen |-> NoRow]
NoPackRun == [pc |-> "idle", version |-> CHOOSE v \in Versions : TRUE, swept |-> {},
                mark |-> "deprecated"]
NoQuestion == [pc |-> "idle", asOf |-> CHOOSE d \in AsOfDays : TRUE, gap |-> "none",
               found |-> FALSE]

CorpusInit ==
  /\ packs = [v \in Versions |-> "absent"]
  /\ chunks = {}
  /\ ingests = [i \in Ingests |-> NoIngest]
  /\ packRuns = [p \in PackRuns |-> NoPackRun]
  /\ questions = [q \in Questions |-> NoQuestion]
  /\ gaps = {}

IngestUnchanged == UNCHANGED <<packRuns, questions, gaps>>

\* parseModule: the sections of the files with a heading and a body, in
\* order.  Their id is made of the module and the headings, so two sections
\* may have one.
Parsed(sections) == SelectSeq(sections, LAMBDA s : s.heading /\ s.body)

\* ingestDirectory: the pack's row, a draft unless it is there already ...
BeginIngest(i, dir) ==
  /\ ingests[i].pc = "idle"
  /\ packs' = [packs EXCEPT ![dir.version] = IF @ = "absent" THEN "draft" ELSE @]
  /\ ingests' = [ingests EXCEPT ![i] = [NoIngest EXCEPT !.pc = "look", !.dir = dir,
                                                        !.left = Parsed(dir.sections)]]
  /\ IngestUnchanged /\ UNCHANGED chunks

\* ... then for each section the newest version still open ...
OpenRows(id) == {c \in chunks : c.id = id /\ c.to = Open}
LookUp(i) ==
  /\ ingests[i].pc = "look" /\ ingests[i].left # <<>>
  /\ LET open == OpenRows(Head(ingests[i].left).id)
         newest == {c \in open : \A d \in open : d.from <= c.from}
         seen == IF open = {} THEN NoRow
                 ELSE LET c == CHOOSE c \in newest : TRUE
                      IN  [id |-> c.id, version |-> c.version, text |-> c.text]
     IN  ingests' = [ingests EXCEPT ![i].pc = "write", ![i].seen = seen]
  /\ IngestUnchanged /\ UNCHANGED <<packs, chunks>>

\* ... which the new text closes the day before it starts, with a version
\* one higher that is inserted unless there is such a row.
Bug_SameVersion(seen) == IF seen = NoRow THEN 1 ELSE seen.version
VersionAfter(seen) == seen.version + 1
Closed(seen, from) ==
  {IF c.id = seen.id /\ c.version = seen.version THEN [c EXCEPT !.to = from - 1] ELSE c :
     c \in chunks}
\* The table's checks: no range ends before it starts, a rate has a date on
\* which it was verified.
ChecksHold(rows) == \A c \in rows : c.to = Open \/ c.to >= c.from
WriteSection(i) ==
  /\ ingests[i].pc = "write"
  /\ LET section == Head(ingests[i].left)
         dir  == ingests[i].dir
         seen == ingests[i].seen
         row  == [id |-> section.id, version |-> VersionAfter(seen), text |-> section.text,
                  pack |-> dir.version, from |-> dir.from, to |-> Open, rate |-> section.rate,
                  verified |-> dir.verified, flags |-> {}]
         closed == IF seen = NoRow THEN chunks ELSE Closed(seen, dir.from)
         there  == \E c \in chunks : c.id = row.id /\ c.version = row.version
     IN  IF seen.text = section.text
         THEN /\ ingests' = [ingests EXCEPT ![i].pc = "look", ![i].left = Tail(@)]
              /\ UNCHANGED chunks
         ELSE IF ChecksHold(closed) /\ (section.rate => dir.verified # 0)
         THEN /\ chunks' = closed \union (IF there THEN {} ELSE {row})
              /\ ingests' = [ingests EXCEPT ![i].pc = "look", ![i].left = Tail(@)]
         ELSE /\ ingests' = [ingests EXCEPT ![i].pc = "failed"]
              /\ UNCHANGED chunks
  /\ IngestUnchanged /\ UNCHANGED packs

FinishIngest(i) ==
  /\ ingests[i].pc = "look" /\ ingests[i].left = <<>>
  /\ ingests' = [ingests EXCEPT ![i].pc = "done"]
  /\ IngestUnchanged /\ UNCHANGED <<packs, chunks>>
\* The run stops between two batches or inside one, which is rolled back.
StopIngest(i) ==
  /\ ingests[i].pc \in {"look", "write"}
  /\ ingests' = [ingests EXCEPT ![i].pc = "stopped"]
  /\ IngestUnchanged /\ UNCHANGED <<packs, chunks>>

\* publishPack, rollbackPack: the other published versions are marked, their
\* rows locked until the commit; then the one named is published, where it
\* exists.
Sweep(p, version, mark) ==
  /\ packRuns[p].pc = "idle"
  /\ LET published == {v \in Versions : packs[v] = "published"}
         swept == IF mark = "deprecated" THEN published \ {version} ELSE published
     IN  /\ \A q \in PackRuns : packRuns[q].pc = "swept" =>
              packRuns[q].swept \intersect swept = {}
         /\ packRuns' = [packRuns EXCEPT ![p] = [NoPackRun EXCEPT
                             !.pc = "swept", !.version = version, !.swept = swept, !.mark = mark]]
  /\ UNCHANGED <<packs, chunks, ingests, questions, gaps>>
CommitPack(p) ==
  /\ packRuns[p].pc = "swept"
  /\ packs' = [v \in Versions |->
                 IF v = packRuns[p].version /\ packs[v] # "absent" THEN "published"
                 ELSE IF v \in packRuns[p].swept THEN packRuns[p].mark ELSE packs[v]]
  /\ packRuns' = [packRuns EXCEPT ![p].pc = "done"]
  /\ UNCHANGED <<chunks, ingests, questions, gaps>>

-----------------------------------------------------------------------------
(* Grounding.                                                              *)

\* retrieve_chunks: the rows in force on the date, of whatever pack.
Covering(day) == {c \in chunks : c.from <= day /\ (c.to = Open \/ c.to >= day)}

\* #isStale: the later of the as-of date and a horizon ago is past the
\* verification by more than the horizon.
Later(a, b) == IF a >= b THEN a ELSE b
Stale(c, asOf) == c.rate /\ Later(asOf, CurrentDay - Horizon) > c.verified + Horizon

\* #detectConflicts: one flag on two rows.
Conflict(found) ==
  \E c, d \in found : c # d /\ c.flags \intersect d.flags # {}

\* retrieve and ground: those near enough, or the refusal its gap names.
Ground(q, asOf) ==
  /\ questions[q].pc = "idle"
  /\ \E found \in SUBSET Covering(asOf) :
       LET gap == IF found = {} THEN "no_coverage"
                  ELSE IF \E c \in found : Stale(c, asOf) THEN "stale_statutory_rate"
                  ELSE IF Conflict(found) THEN "conflicting_sources" ELSE "none"
       IN  questions' = [questions EXCEPT ![q] = [NoQuestion EXCEPT
                           !.pc = IF gap = "none" THEN "answered" ELSE "gap",
                           !.asOf = asOf, !.gap = gap]]
  /\ UNCHANGED <<packs, chunks, ingests, packRuns, gaps>>

\* #recordGap: the open row of this question is looked up, then counted up
\* or written.
SameGap(q) == {g \in gaps : g.asOf = questions[q].asOf /\ g.kind = questions[q].gap}
LookForGap(q) ==
  /\ questions[q].pc = "gap"
  /\ questions' = [questions EXCEPT ![q].pc = "record", ![q].found = SameGap(q) # {}]
  /\ UNCHANGED <<packs, chunks, ingests, packRuns, gaps>>
RecordGap(q) ==
  /\ questions[q].pc = "record"
  /\ gaps' = IF questions[q].found
             THEN LET g == CHOOSE g \in SameGap(q) : TRUE
                  IN  (gaps \ {g}) \union {[g EXCEPT !.count = @ + 1]}
             ELSE gaps \union {[by |-> q, asOf |-> questions[q].asOf,
                                kind |-> questions[q].gap, count |-> 1]}
  /\ questions' = [questions EXCEPT ![q].pc = "refused"]
  /\ UNCHANGED <<packs, chunks, ingests, packRuns>>

CorpusNext ==
  \/ \E i \in Ingests : \/ \E dir \in Directories : BeginIngest(i, dir)
                        \/ LookUp(i) \/ WriteSection(i) \/ FinishIngest(i) \/ StopIngest(i)
  \/ \E p \in PackRuns : \/ \E v \in Versions, mark \in {"deprecated", "rolled_back"} :
                                Sweep(p, v, mark)
                           \/ CommitPack(p)
  \/ \E q \in Questions : (\E day \in AsOfDays : Ground(q, day)) \/ LookForGap(q) \/ RecordGap(q)

CorpusSpec == CorpusInit /\ [][CorpusNext]_corpusVars

CorpusTypeOK ==
  /\ \A v \in Versions : packs[v] \in {"absent", "draft", "published", "deprecated", "rolled_back"}
  /\ \A c \in chunks : c.version \in Nat \ {0} /\ c.pack \in Versions /\ ChecksHold({c})
  /\ \A g \in gaps : g.count \in 1..Cardinality(Questions)

\* However ingests overlap, stop and fail, a section that entered the corpus
\* has exactly one open version, its newest: a question about a date ahead
\* of every change finds its text, and finds one (ingest.ts: "re-running
\* over changed text supersedes rather than overwrites").
NewestVersionIsOpen ==
  \A c \in chunks :
    (c.to = Open) <=> (\A d \in chunks : d.id = c.id => d.version <= c.version)
=============================================================================
