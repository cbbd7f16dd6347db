---------------------------- MODULE DnsDeploy_proofs ----------------------------
(***************************************************************************)
(* Theorems about DnsDeploy, for any number of jobs at once, any zones,    *)
(* MX hosts, policies and bounds.                                          *)
(***************************************************************************)
EXTENDS DnsDeploy, TLAPS

\* The zone has exactly what a job would write.
Holds(t) == Want(t) \in Says(zone, t)

Calling == {"put", "post", "extras"}
PastList == Calling \cup {"deploy", "mx", "register", "profile"}

\* The ids of a name's records.
Named(recs, t) == {r.id : r \in Of(recs, t)}

\* What a job with these data deploys, or finds right.
Due(data) == {t \in Types \ {"mx"} : ~Skips(data, t)}

\* What a job at each stage looks like.
ShapeOf(x) ==
    /\ x.at = "none" => x = NoJob
    /\ x.at \in {"queued", "zone", "list"} => x.seen = {} /\ x.done = {}
    /\ x.at \in Calling => x.slot \in Types \ {"mx"} /\ x.want \in Contents
    /\ x.at \in {"put", "extras"} =>
          /\ x.id \in Named(x.seen, x.slot)
          /\ x.left \subseteq Named(x.seen, x.slot) \ {x.id}
    /\ x.at = "post" => Of(x.seen, x.slot) = {}
    /\ x.at = "mx" => x.slot = "mx" /\ x.left \subseteq MxHosts
    /\ x.at \notin {"put", "extras", "mx"} => x.left = {}
    /\ x.at \notin Calling \cup {"mx"} => x.slot = "none"
    /\ x.at \in {"register", "profile"} =>
          x.kind = "setup" /\ x.todo = {} /\ "profile" \notin x.data
    /\ x.at = "complete" /\ x.kind = "setup" =>
          x.todo = {} /\ "profile" \in x.data
    /\ x.at \in {"zone", "list"} /\ x.kind = "setup" =>
          x.todo = {"verification"} /\ "profile" \notin x.data
    /\ x.at = "queued" => x.kind = "fix"

Shapes == \A j \in Jobs : ShapeOf(job[j])

\* A list's ids are still those of records of the same name.
Ids ==
    \A j \in Jobs : \A r \in job[j].seen :
        /\ r.id \in 1..ids
        /\ \A s \in job[j].seen : r.id = s.id => r = s
        /\ \A s \in zone : r.id = s.id => r.slot = s.slot

\* What a job knows when nobody changed anything: what was right still is, what
\* it wrote is right, and so is what it leaves out, but for what it skips.
Good(x) ==
    /\ \A t \in Types \ {"mx"} : Want(t) \in Says(x.seen, t) => Holds(t)
    /\ \A t \in x.done \ {"mx"} : Holds(t)
    /\ x.at \in Calling => x.want = Want(x.slot)
    /\ x.at = "extras" =>
          \E r \in Of(zone, x.slot) : r.id = x.id /\ r.content = x.want
    /\ x.at \in PastList \cup {"complete"} /\ x.kind = "setup" =>
          IF "profile" \in x.data
          THEN onMx /\ \A t \in Due(x.data) \ ({x.slot} \cup x.todo) : Holds(t)
          ELSE "verification" \in x.todo \cup {x.slot} \/ Holds("verification")
    /\ x.at = "profile" => onMx
    /\ x.at \in PastList /\ ~misread =>
          \A t \in Types \ {"mx"} :
              Of(x.seen, t) = {} => \A r \in Of(zone, t) : r.content = Want(t)

Undisturbed == ~disturbed => \A j \in Jobs : Good(job[j])

IInv ==
    /\ TypeOK
    /\ Distinct(zone)
    /\ Shapes
    /\ Ids
    /\ Undisturbed

\* What is known of the zone itself.
ZoneTyped ==
    /\ zone \subseteq Record
    /\ \A r \in zone, s \in zone : r.id = s.id => r = s
    /\ ids \in Nat /\ \A r \in zone : r.id \in 1..ids
    /\ Distinct(zone)

\* What a step of a job does to the zone: what is right stays, and what is new
\* is right.
Steady ==
    /\ saved' = saved
    /\ Published \subseteq Published'
    /\ \A t \in Types \ {"mx"} :
          /\ \A r \in Of(zone, t) : r.content = Want(t) => r \in zone'
          /\ \A r \in Of(zone', t) : r \in zone \/ r.content = Want(t)

\* The zone after a step of a job, and whatever is neither zone nor job.
ZoneStep ==
    /\ ZoneTyped'
    /\ ids' \in {ids, ids + 1}
    /\ \A s \in zone' : \/ s.id = ids + 1
                       \/ \E r \in zone : r.id = s.id /\ r.slot = s.slot
    /\ ~disturbed => Steady

WorldStep ==
    /\ hosted' \in BOOLEAN
    /\ onMx' \in BOOLEAN /\ (onMx => onMx')
    /\ hosting' \in BOOLEAN
    /\ saved' = saved
    /\ begun' \in 0..MaxJobs
    /\ faults' \in 0..MaxUpsets
    /\ hands' = hands

-----------------------------------------------------------------------------
(* Records. *)

USE DeployAssumption, ZonesAssumption

\* What a job would write makes its check pass.
LEMMA HoldsPasses == ASSUME TypeOK, NEW t \in Types \ {"mx"}, Holds(t)
                     PROVE  t \in Published
<1>1. t \in {"verification", "dkim", "mail"} \/ t = "spf" \/ t = "dmarc"
  BY DEF Checks, MailChecks
<1>2. CASE t = "dmarc"
  BY <1>2 DEF Holds, Want, Effective, Published, Passes, DmarcMatches, TypeOK
<1>3. CASE t = "spf"
  BY <1>3 DEF Holds, Want, Published, Passes, SpfCovers
<1>4. CASE t \in {"verification", "dkim", "mail"}
  BY <1>4 DEF Holds, Want, Published, Passes, MailPasses
<1> QED
  BY <1>1, <1>2, <1>3, <1>4

\* What a job would write is one particular content.
LEMMA WantTyped ==
    ASSUME TypeOK, NEW t \in Types
    PROVE  Want(t) \in Contents /\ Want(t) \notin {"other", "extended"}
  BY DEF Want, Effective, Contents, TypeOK

-----------------------------------------------------------------------------
(* What the steps of a job do to the zone. *)

\* The records a call is about are of its name.
LEMMA CallFacts ==
    ASSUME IInv, NEW j \in Jobs, job[j].at \in Calling
    PROVE  /\ job[j].slot \in Types \ {"mx"}
           /\ job[j].want \in Contents
           /\ job[j] \in Job
           /\ job[j].at \in {"put", "extras"} =>
                /\ job[j].id \in Nat
                /\ job[j].id \in Named(job[j].seen, job[j].slot)
                /\ job[j].left \subseteq
                     Named(job[j].seen, job[j].slot) \ {job[j].id}
           /\ ~disturbed => job[j].want = Want(job[j].slot)
  BY DEF IInv, TypeOK, Shapes, ShapeOf, Undisturbed, Good, Job, Calling

\* The id of a PUT or of an extra is that of a record of the job's name.
LEMMA ListedIds ==
    ASSUME IInv, NEW j \in Jobs, job[j].at \in {"put", "extras"},
           NEW i \in {job[j].id} \cup job[j].left
    PROVE  /\ i \in 1..ids
           /\ \A r \in zone : r.id = i => r.slot = job[j].slot
<1>1. \E s \in Of(job[j].seen, job[j].slot) : s.id = i
  BY CallFacts DEF Calling, Named
<1> QED
  BY <1>1 DEF Of, Ids, IInv

\* A check that passes goes on passing while its records stay; and one whose
\* right record is there passes.
LEMMA PassesOn ==
    ASSUME TypeOK, saved' = saved, NEW S \in Types,
           \A u \in Types \ {S} : Of(zone', u) = Of(zone, u),
           \/ Says(zone, S) \subseteq Says(zone', S)
           \/ S # "mx" /\ Want(S) \in Says(zone', S)
    PROVE  Published \subseteq Published'
<1>1. ASSUME NEW u \in Types, Says(zone, u) \subseteq Says(zone', u), Passes(u)
      PROVE  Passes(u)'
  BY <1>1 DEF Passes, HostsMatch, SpfCovers, DmarcMatches, MailPasses, saved
<1>2. \A u \in Types \ {S} : Says(zone, u) \subseteq Says(zone', u)
  BY DEF Says
<1>3. CASE Says(zone, S) \subseteq Says(zone', S)
  BY <1>1, <1>2, <1>3 DEF Published
<1>4. CASE S # "mx" /\ Want(S) \in Says(zone', S)
  <2>1. S \in {"verification", "dkim", "mail"} \/ S = "spf" \/ S = "dmarc"
    BY <1>4 DEF Checks, MailChecks
  <2>2. policy' = policy
    BY DEF saved
  <2>3. Passes(S)'
    BY <2>1, <2>2, <1>4 DEF Want, Effective, Passes, SpfCovers, DmarcMatches,
       MailPasses, TypeOK
  <2> QED
    BY <1>1, <1>2, <2>3 DEF Published
<1> QED
  BY <1>3, <1>4

\* A record is added under a new id.
LEMMA AddTyped ==
    ASSUME ZoneTyped, NEW t \in Types, NEW c \in Contents, Add(t, c),
           ~Identical(t, c, 0) \/ c = "other"
    PROVE  ZoneTyped'
<1> PICK n : n = [slot |-> t, id |-> ids + 1, content |-> c]
  OBVIOUS
<1>1. /\ n \in Record /\ n.id = ids + 1 /\ n.slot = t /\ n.content = c
      /\ zone' = zone \cup {n} /\ ids' = ids + 1
  BY DEF Add, Record, ZoneTyped
<1>2. ASSUME NEW r \in zone, r.slot = t, r.content = c PROVE c = "other"
  BY <1>2 DEF ZoneTyped, Identical, Of
<1>3. Distinct(zone')
  BY <1>1, <1>2 DEF Distinct, ZoneTyped
<1>4. /\ zone' \subseteq Record
      /\ \A r \in zone', s \in zone' : r.id = s.id => r = s
      /\ ids' \in Nat /\ \A r \in zone' : r.id \in 1..ids'
  BY <1>1 DEF ZoneTyped
<1> QED
  BY <1>3, <1>4 DEF ZoneTyped, Distinct

\* A right record is added to a name, or an MX host.
LEMMA AddSteady ==
    ASSUME TypeOK, NEW t \in Types, NEW c, Add(t, c), saved' = saved,
           t # "mx" => c = Want(t)
    PROVE  Steady
<1>1. \A u \in Types \ {t} : Of(zone', u) = Of(zone, u)
  BY DEF Add, Of
<1>2. Of(zone', t) = Of(zone, t) \cup
                        {[slot |-> t, id |-> ids + 1, content |-> c]}
  BY DEF Add, Of
<1>3. Says(zone, t) \subseteq Says(zone', t)
  BY <1>2 DEF Says
<1>4. Published \subseteq Published'
  BY <1>1, <1>3, PassesOn
<1>6. ASSUME NEW u \in Types \ {"mx"}, NEW r \in Of(zone', u)
      PROVE  r \in zone \/ r.content = Want(u)
  BY <1>1, <1>2 DEF Of
<1>7. zone \subseteq zone'
  BY DEF Add
<1> QED
  BY <1>4, <1>6, <1>7 DEF Steady, Of

\* A record is replaced by a right one.
LEMMA PutSteady ==
    ASSUME IInv, ~disturbed, NEW j \in Jobs, At(j, "put"), PutAccepted(j),
           zone' = Replaced(j), ids' = ids, saved' = saved
    PROVE  Steady /\ Want(job[j].slot) \in Says(zone', job[j].slot)
<1>1. /\ job[j].slot \in Types \ {"mx"}
      /\ job[j].id \in Nat
      /\ job[j].want = Want(job[j].slot)
      /\ \A r \in zone : r.id = job[j].id => r.slot = job[j].slot
  BY CallFacts, ListedIds DEF At, Calling
<1> PICK S \in Types \ {"mx"} : S = job[j].slot
  BY <1>1
<1> PICK i \in Nat : i = job[j].id
  BY <1>1
<1> PICK n \in Record : n = [slot |-> S, id |-> i, content |-> Want(S)]
  BY WantTyped DEF Record, IInv
<1>2. /\ zone' = {r \in zone : r.id # i} \cup {n}
      /\ \A r \in zone : r.id = i => r.slot = S
  BY <1>1 DEF Replaced
<1>3. \A u \in Types \ {S} : Of(zone', u) = Of(zone, u)
  BY <1>2 DEF Of
<1>4. Of(zone', S) = {r \in Of(zone, S) : r.id # i} \cup {n}
  BY <1>2 DEF Of
<1>5. Want(S) \in Says(zone', S)
  BY <1>4 DEF Says
<1>6. Published \subseteq Published'
  BY <1>3, <1>5, PassesOn DEF IInv
<1>7. ASSUME NEW r \in Of(zone, S), r.content = Want(S) PROVE r \in zone'
  <2>1. r \in Record /\ r.slot = S
    BY DEF Of, IInv, TypeOK
  <2>2. r.id = i => r = n
    BY <1>7, <2>1 DEF Record
  <2> QED
    BY <1>4, <2>2 DEF Of
<1>8. \A u \in Types \ {"mx", S} :
          /\ \A r \in Of(zone, u) : r \in zone'
          /\ \A r \in Of(zone', u) : r \in zone
  BY <1>3 DEF Of
<1>9. \A r \in Of(zone', S) : r \in zone \/ r.content = Want(S)
  BY <1>4 DEF Of
<1> QED
  BY <1>5, <1>6, <1>7, <1>8, <1>9 DEF Steady

\* Another record of the name goes, once one is right.
LEMMA DropSteady ==
    ASSUME IInv, ~disturbed, NEW j \in Jobs, At(j, "extras"),
           NEW i \in job[j].left, zone' = {r \in zone : r.id # i},
           saved' = saved
    PROVE  Steady
<1>0. /\ job[j].slot \in Types \ {"mx"} /\ i # job[j].id
      /\ \A r \in zone : r.id = i => r.slot = job[j].slot
  BY CallFacts, ListedIds DEF At, Calling
<1> PICK S \in Types \ {"mx"} : S = job[j].slot
  BY <1>0
<1>1. PICK w \in Of(zone, S) : w.id = job[j].id /\ w.content = Want(S)
  BY CallFacts DEF At, Calling, Undisturbed, Good, IInv
<1>2. \A u \in Types \ {S} : Of(zone', u) = Of(zone, u)
  BY <1>0 DEF Of
<1>3. Of(zone', S) = {r \in Of(zone, S) : r.id # i}
  BY DEF Of
<1>4. Want(S) \in Says(zone', S)
  BY <1>0, <1>1, <1>3 DEF Says
<1>5. Published \subseteq Published'
  BY <1>2, <1>4, PassesOn DEF IInv
<1>6. ASSUME NEW r \in Of(zone, S), r.content = Want(S) PROVE r \in zone'
  <2>1. r = w
    BY <1>1, <1>6, WantTyped DEF Of, IInv, Distinct
  <2> QED
    BY <1>0, <1>1, <2>1 DEF Of
<1>7. \A u \in Types \ {"mx", S} : \A r \in Of(zone, u) : r \in zone'
  BY <1>2 DEF Of
<1>8. zone' \subseteq zone
  OBVIOUS
<1> QED
  BY <1>5, <1>6, <1>7, <1>8 DEF Steady, Of

\* Nothing happens to the zone.
LEMMA SameSteady == ASSUME zone' = zone, saved' = saved PROVE Steady
  BY DEF Steady, Published, Passes, HostsMatch, SpfCovers, DmarcMatches,
         MailPasses, Says, Of, saved

-----------------------------------------------------------------------------
(* How a step of one job keeps the invariant. *)

\* What is known of a job survives a steady step.
LEMMA Carried ==
    ASSUME IInv, ~disturbed, Steady, NEW j \in Jobs
    PROVE  /\ \A t \in Types : Want(t)' = Want(t)
           /\ \A t \in Types \ {"mx"} :
                 Want(t) \in Says(job[j].seen, t) => Want(t) \in Says(zone', t)
           /\ \A t \in Types \ {"mx"} : Holds(t) => Want(t) \in Says(zone', t)
           /\ \A t \in job[j].done \ {"mx"} : Want(t) \in Says(zone', t)
           /\ job[j].at \in Calling => job[j].want = Want(job[j].slot)
           /\ job[j].at = "extras" =>
                 \E r \in Of(zone', job[j].slot) :
                     r.id = job[j].id /\ r.content = job[j].want
           /\ job[j].at \in PastList /\ ~misread =>
                 \A t \in Types \ {"mx"} :
                     Of(job[j].seen, t) = {} =>
                         \A r \in Of(zone', t) : r.content = Want(t)
<1>1. Good(job[j]) /\ ShapeOf(job[j]) /\ job[j] \in Job
  BY DEF IInv, Undisturbed, Shapes, TypeOK
<1>2. \A t \in Types : Want(t)' = Want(t)
  BY DEF Steady, Want, Effective, saved
<1>4. \A t \in Types \ {"mx"} : Holds(t) => Want(t) \in Says(zone', t)
  BY DEF Holds, Says, Of, Steady
<1>5. \A t \in Types \ {"mx"} :
          Want(t) \in Says(job[j].seen, t) => Want(t) \in Says(zone', t)
  BY <1>1, <1>4 DEF Good
<1>6. \A t \in job[j].done \ {"mx"} : Want(t) \in Says(zone', t)
  BY <1>1, <1>4 DEF Good, Job
<1>7. job[j].at \in Calling => job[j].want = Want(job[j].slot)
  BY <1>1 DEF Good
<1>8. ASSUME job[j].at = "extras"
      PROVE  \E r \in Of(zone', job[j].slot) :
                 r.id = job[j].id /\ r.content = job[j].want
  <2>1. PICK r \in Of(zone, job[j].slot) :
           r.id = job[j].id /\ r.content = job[j].want
    BY <1>1, <1>8 DEF Good
  <2>2. job[j].slot \in Types \ {"mx"}
    BY <1>8, <2>1, CallFacts DEF Calling
  <2>3. r.content = Want(job[j].slot)
    BY <1>7, <1>8, <2>1 DEF Calling
  <2>4. r \in zone'
    BY <2>1, <2>2, <2>3 DEF Steady
  <2> QED
    BY <2>1, <2>4 DEF Of
<1>9. ASSUME job[j].at \in PastList, ~misread, NEW t \in Types \ {"mx"},
             Of(job[j].seen, t) = {}, NEW r \in Of(zone', t)
      PROVE  r.content = Want(t)
  BY <1>1, <1>9 DEF Good, Steady, Of
<1> QED
  BY <1>2, <1>4, <1>5, <1>6, <1>7, <1>8, <1>9

\* A job that has no list and did nothing yet.
LEMMA BlankGood ==
    ASSUME NEW j \in Jobs, job'[j].seen = {}, job'[j].done = {},
           job'[j].at \notin PastList,
           job'[j].at = "complete" => job'[j].kind # "setup"
    PROVE  Good(job[j])'
  BY DEF Good, Of, Says, PastList, Calling

\* A job that keeps its list stays good if the rest of what it says is right.
LEMMA GoodFrom ==
    ASSUME IInv, ~disturbed, Steady, misread => misread',
           NEW j \in Jobs, NEW x, job'[j] = x, x.seen = job[j].seen,
           \A t \in x.done \ {"mx"} : t \in Types /\ Want(t) \in Says(zone', t),
           x.at \in Calling => x.slot \in Types /\ x.want = Want(x.slot),
           x.at = "extras" =>
               \E r \in Of(zone', x.slot) : r.id = x.id /\ r.content = x.want,
           x.at \in PastList \cup {"complete"} /\ x.kind = "setup" =>
               IF "profile" \in x.data
               THEN /\ onMx'
                    /\ \A t \in Due(x.data) \ ({x.slot} \cup x.todo) :
                          Want(t) \in Says(zone', t)
               ELSE \/ "verification" \in x.todo \cup {x.slot}
                    \/ Want("verification") \in Says(zone', "verification"),
           x.at = "profile" => onMx',
           x.at \in PastList => job[j].at \in PastList
    PROVE  Good(job[j])'
<1>0. \A t \in Types : Want(t)' = Want(t)
  BY Carried
<1>h. \A t \in Types : Want(t) \in Says(zone', t) => Holds(t)'
  BY <1>0 DEF Holds
<1>1. \A data, t : Skips(data, t)' = Skips(data, t)
  BY DEF Steady, saved, Skips
<1>2. \A t \in Types \ {"mx"} : Want(t)' \in Says(x.seen, t) => Holds(t)'
  BY Carried, <1>0, <1>h
<1>3. \A t \in x.done \ {"mx"} : Holds(t)'
  BY <1>h
<1>4. x.at \in Calling => x.want = Want(x.slot)'
  <2> SUFFICES ASSUME x.at \in Calling PROVE x.want = Want(x.slot)'
    OBVIOUS
  <2> PICK t \in Types : t = x.slot
    OBVIOUS
  <2>1. x.want = Want(t) /\ Want(t)' = Want(t)
    BY <1>0
  <2> QED
    BY <2>1 DEF Want, Effective
<1>5. x.at \in PastList \cup {"complete"} /\ x.kind = "setup" =>
          IF "profile" \in x.data
          THEN /\ onMx'
               /\ \A t \in Due(x.data)' \ ({x.slot} \cup x.todo) : Holds(t)'
          ELSE "verification" \in x.todo \cup {x.slot} \/ Holds("verification")'
  BY <1>h, <1>1 DEF Due
<1>6. x.at \in PastList /\ ~misread' =>
          \A t \in Types \ {"mx"} :
              Of(x.seen, t) = {} => \A r \in Of(zone', t) : r.content = Want(t)'
  BY Carried, <1>0
<1> QED
  BY <1>2, <1>3, <1>4, <1>5, <1>6 DEF Good

\* The jobs that do not move.
LEMMA OthersGood ==
    ASSUME IInv, Remember, hands' = hands, ~disturbed => Steady, onMx => onMx',
           NEW k \in Jobs, job'[k] = job[k], ~disturbed'
    PROVE  Good(job[k])'
<1>1. CASE At(k, "none")
  <2>1. job[k] = NoJob
    BY <1>1 DEF IInv, Shapes, ShapeOf, At
  <2> QED
    BY <2>1, BlankGood DEF NoJob, PastList, Calling
<1>2. CASE ~At(k, "none")
  <2>1. ~disturbed /\ (misread => misread')
    BY <1>2 DEF Remember, Busy, At
  <2>2. Good(job[k]) /\ Steady
    BY <2>1 DEF IInv, Undisturbed
  <2>3. job[k].at \in PastList \cup {"complete"} /\ job[k].kind = "setup" =>
          IF "profile" \in job[k].data
          THEN /\ onMx'
               /\ \A t \in Due(job[k].data) \ ({job[k].slot} \cup job[k].todo) :
                     Want(t) \in Says(zone', t)
          ELSE \/ "verification" \in job[k].todo \cup {job[k].slot}
               \/ Want("verification") \in Says(zone', "verification")
    BY <2>1, <2>2, Carried DEF Good, Due
  <2> QED
    <3>1. /\ job[k].done \subseteq Types
          /\ job[k].at \in Calling => job[k].slot \in Types
      BY CallFacts DEF IInv, TypeOK, Job
    <3>2. job[k].at = "profile" => onMx'
      BY <2>2 DEF Good
    <3> PICK x \in Job : x = job[k]
      BY DEF IInv, TypeOK
    <3>3. /\ \A t \in x.done \ {"mx"} : t \in Types /\ Want(t) \in Says(zone', t)
          /\ x.at \in Calling => x.slot \in Types /\ x.want = Want(x.slot)
          /\ x.at = "extras" =>
               \E r \in Of(zone', x.slot) : r.id = x.id /\ r.content = x.want
      BY <2>1, <2>2, <3>1, Carried
    <3> QED
      BY <2>1, <2>2, <2>3, <3>2, <3>3, GoodFrom
<1> QED
  BY <1>1, <1>2

\* No job looks like one that deletes what it wrote.
LEMMA ShapeIds == ASSUME NEW x \in Job, ShapeOf(x) PROVE x.id \notin x.left
  BY DEF ShapeOf, Job

\* Lists stay lists of what has been in the zone.
LEMMA IdsKept ==
    ASSUME IInv, NEW j \in Jobs, ids' \in {ids, ids + 1},
           \A s \in zone' : \/ s.id = ids + 1
                            \/ \E r \in zone : r.id = s.id /\ r.slot = s.slot,
           \A k \in Jobs \ {j} : job'[k] = job[k],
           \/ job'[j].seen = job[j].seen
           \/ job'[j].seen \subseteq zone /\ zone' = zone /\ ids' = ids
    PROVE  Ids'
<1>1. ids \in Nat
  BY DEF IInv, TypeOK
<1>2. ASSUME NEW k \in Jobs, job'[k].seen = job[k].seen, NEW r \in job'[k].seen
      PROVE  /\ r.id \in 1..ids'
             /\ \A s \in job'[k].seen : r.id = s.id => r = s
             /\ \A s \in zone' : r.id = s.id => r.slot = s.slot
  BY <1>1, <1>2 DEF IInv, Ids
<1>3. ASSUME job'[j].seen \subseteq zone, zone' = zone, ids' = ids,
             NEW r \in job'[j].seen
      PROVE  /\ r.id \in 1..ids'
             /\ \A s \in job'[j].seen : r.id = s.id => r = s
             /\ \A s \in zone' : r.id = s.id => r.slot = s.slot
  BY <1>3 DEF IInv, TypeOK
<1> QED
  BY <1>2, <1>3 DEF Ids

\* A job goes on, and the rest stays as it must.
LEMMA MoveKeeps ==
    ASSUME IInv, Remember, NEW j \in Jobs, NEW x \in Job, ShapeOf(x),
           job' = [job EXCEPT ![j] = x], ZoneStep, WorldStep, Ids',
           ~disturbed' => Good(job[j])'
    PROVE  IInv'
<1>1. /\ job' \in [Jobs -> Job]
      /\ job'[j] = x
      /\ \A k \in Jobs \ {j} : job'[k] = job[k]
  BY DEF IInv, TypeOK
<1>2. \A k \in Jobs : ShapeOf(job'[k])
  BY <1>1 DEF IInv, Shapes
<1>3. \A k \in Jobs : job'[k].id \notin job'[k].left
  BY <1>1, <1>2, ShapeIds
<1>4. TypeOK'
  <2>1. server' \in BOOLEAN /\ policy' \in Policies \cup {NoPolicy}
    BY DEF WorldStep, saved, IInv, TypeOK
  <2> QED
    BY <1>1, <1>3, <2>1
       DEF TypeOK, ZoneTyped, ZoneStep, WorldStep, Remember, IInv
<1>5. Shapes'
  BY <1>2 DEF Shapes
<1>6. ASSUME ~disturbed', NEW k \in Jobs PROVE Good(job[k])'
  <2>1. CASE k = j
    BY <1>6, <2>1
  <2>2. CASE k # j
    BY <1>1, <1>6, <2>2, OthersGood DEF ZoneStep, WorldStep
  <2> QED
    BY <2>1, <2>2
<1> QED
  BY <1>4, <1>5, <1>6 DEF IInv, Undisturbed, ZoneStep, ZoneTyped

\* A job in the middle of something was not disturbed, if it is not now.
LEMMA StillUndisturbed ==
    ASSUME Remember, hands' = hands, NEW j \in Jobs, ~At(j, "none"),
           job'[j].at # "none", ~disturbed'
    PROVE  /\ ~disturbed
           /\ misread => misread'
           /\ At(j, "list") /\ job'[j].at = "deploy" /\ job'[j].seen # zone =>
                 misread'
  BY DEF Remember, Busy, At

\* A job begins, ends, or goes on without a list.
LEMMA BlankKeeps ==
    ASSUME IInv, Remember, NEW j \in Jobs, NEW x \in Job, ShapeOf(x),
           job' = [job EXCEPT ![j] = x], UNCHANGED records, WorldStep,
           x.seen = {}, x.done = {}, x.at \notin PastList,
           x.at = "complete" => x.kind # "setup"
    PROVE  IInv'
<1>1. job'[j] = x /\ \A k \in Jobs \ {j} : job'[k] = job[k]
  BY DEF IInv, TypeOK
<1>2. Good(job[j])'
  BY <1>1, BlankGood
<1>3. ZoneStep
  BY SameSteady DEF ZoneStep, records, IInv, TypeOK, ZoneTyped, WorldStep
<1>4. Ids'
  BY <1>1, <1>3, IdsKept DEF ZoneStep, records
<1> QED
  BY <1>2, <1>3, <1>4, MoveKeeps

\* A job goes on with its list.
LEMMA ListedKeeps ==
    ASSUME IInv, Remember, NEW j \in Jobs, NEW x \in Job, ShapeOf(x),
           ~At(j, "none"), x.at # "none",
           job' = [job EXCEPT ![j] = x], ZoneStep, WorldStep,
           x.seen = job[j].seen, x.at \in PastList => job[j].at \in PastList,
           ~disturbed =>
               /\ \A t \in x.done \ {"mx"} : Want(t) \in Says(zone', t)
               /\ x.at \in Calling => x.want = Want(x.slot)
               /\ x.at = "extras" => \E r \in Of(zone', x.slot) :
                                       r.id = x.id /\ r.content = x.want
               /\ x.at \in PastList \cup {"complete"} /\ x.kind = "setup" =>
                     IF "profile" \in x.data
                     THEN /\ onMx'
                          /\ \A t \in Due(x.data) \ ({x.slot} \cup x.todo) :
                                Want(t) \in Says(zone', t)
                     ELSE \/ "verification" \in x.todo \cup {x.slot}
                          \/ Want("verification") \in Says(zone', "verification")
               /\ x.at = "profile" => onMx'
    PROVE  IInv'
<1>1. job'[j] = x /\ \A k \in Jobs \ {j} : job'[k] = job[k]
  BY DEF IInv, TypeOK
<1>2. ASSUME ~disturbed' PROVE Good(job[j])'
  <2>1. ~disturbed /\ (misread => misread') /\ Steady
    BY <1>1, <1>2, StillUndisturbed DEF WorldStep, ZoneStep
  <2>2. x.done \subseteq Types /\ (x.at \in Calling => x.slot \in Types)
    BY DEF Job, ShapeOf
  <2> QED
    BY <1>1, <2>1, <2>2, GoodFrom
<1>3. Ids'
  BY <1>1, IdsKept DEF ZoneStep
<1> QED
  BY <1>2, <1>3, MoveKeeps

\* Failures are counted to their bound.
LEMMA FaultTyped ==
    ASSUME TypeOK, Fault \/ NoFault PROVE faults' \in 0..MaxUpsets
<1>1. faults \in 0..MaxUpsets /\ hands \in 0..MaxUpsets /\ MaxUpsets \in Nat
  BY DEF TypeOK
<1> QED
  BY <1>1 DEF Fault, NoFault

\* A job ends with an error.
LEMMA FailureKeeps ==
    ASSUME IInv, Remember, NEW j \in Jobs, ~At(j, "none"), Raises(j),
           ZoneStep, WorldStep
    PROVE  IInv'
<1> PICK x : x = Stage(j, "failed")
  OBVIOUS
<1>1. job[j] \in Job
  BY DEF IInv, TypeOK
<1>2. /\ x \in Job /\ ShapeOf(x)
      /\ x.at = "failed" /\ x.seen = job[j].seen /\ x.done = job[j].done
  BY <1>1 DEF Stage, Job, Stages, ShapeOf, Calling
<1>3. ~disturbed => \A t \in x.done \ {"mx"} : Want(t) \in Says(zone', t)
  BY <1>2, Carried DEF ZoneStep
<1>4. job' = [job EXCEPT ![j] = x]
  BY DEF Raises, Becomes
<1> QED
  BY <1>2, <1>3, <1>4, ListedKeeps DEF PastList, Calling

-----------------------------------------------------------------------------
(* The zone after each call. *)

\* It is left alone.
LEMMA QuietZone ==
    ASSUME IInv, UNCHANGED records, UNCHANGED saved PROVE ZoneStep
  BY SameSteady DEF ZoneStep, records, IInv, TypeOK, ZoneTyped

\* A record is added.
LEMMA AddZone ==
    ASSUME IInv, NEW t \in Types, NEW c \in Contents, UNCHANGED saved,
           ~Identical(t, c, 0), ids' = ids + 1,
           zone' = zone \cup {[slot |-> t, id |-> ids + 1, content |-> c]},
           ~disturbed /\ t # "mx" => c = Want(t)
    PROVE  ZoneStep
<1>1. Add(t, c) /\ TypeOK /\ ZoneTyped
  BY DEF Add, IInv, TypeOK, ZoneTyped
<1>2. ZoneTyped'
  BY <1>1, AddTyped
<1>3. ~disturbed => Steady
  BY <1>1, AddSteady
<1> QED
  BY <1>2, <1>3 DEF ZoneStep

\* A record is replaced.
LEMMA PutZone ==
    ASSUME IInv, NEW j \in Jobs, At(j, "put"), PutAccepted(j),
           zone' = Replaced(j), UNCHANGED <<ids, saved>>
    PROVE  ZoneStep
<1>1. /\ job[j].slot \in Types /\ job[j].want \in Contents
      /\ job[j].id \in 1..ids /\ ids \in Nat
      /\ \A r \in zone : r.id = job[j].id => r.slot = job[j].slot
  BY CallFacts, ListedIds DEF At, Calling, IInv, TypeOK
<1> PICK n : n = [slot |-> job[j].slot, id |-> job[j].id,
                  content |-> job[j].want]
  OBVIOUS
<1>2. n \in Record /\ n.id = job[j].id /\ n.slot = job[j].slot
  BY <1>1 DEF Record
<1>3. zone' = {r \in zone : r.id # job[j].id} \cup {n}
  BY DEF Replaced
<1>4. Distinct(zone')
  <2>1. n.content = job[j].want
    OBVIOUS
  <2>2. \A r \in zone : r.slot = n.slot /\ r.content = n.content =>
          r.id = job[j].id
    BY <1>2, <2>1 DEF PutAccepted, Accepts, Identical, Of
  <2> HIDE DEF Distinct
  <2>3. Distinct({r \in zone : r.id # job[j].id} \cup {n})
    BY <2>2 DEF Distinct, IInv
  <2> QED
    BY <1>3, <2>3
<1>7. ZoneTyped'
  BY <1>1, <1>2, <1>3, <1>4 DEF ZoneTyped, IInv, TypeOK, Distinct
<1>5. \A s \in zone' : \E r \in zone : r.id = s.id /\ r.slot = s.slot
  BY <1>1, <1>2, <1>3 DEF PutAccepted
<1>6. ~disturbed => Steady
  BY PutSteady
<1> QED
  BY <1>5, <1>6, <1>7 DEF ZoneStep

\* A record goes.
LEMMA DropZone ==
    ASSUME IInv, NEW j \in Jobs, At(j, "extras"), NEW i \in job[j].left,
           zone' = {r \in zone : r.id # i}, UNCHANGED <<ids, saved>>
    PROVE  ZoneStep
<1>1. ZoneTyped'
  BY DEF ZoneTyped, IInv, TypeOK, Distinct
<1>2. ~disturbed => Steady
  BY DropSteady
<1> QED
  BY <1>1, <1>2 DEF ZoneStep

\* What a setup knows to be right stays so.
LEMMA SetupCarried ==
    ASSUME IInv, ~disturbed, Steady, onMx => onMx', NEW j \in Jobs,
           job[j].at \in PastList \cup {"complete"}, job[j].kind = "setup"
    PROVE  IF "profile" \in job[j].data
           THEN /\ onMx'
                /\ \A t \in Due(job[j].data) \ ({job[j].slot} \cup job[j].todo) :
                      Want(t) \in Says(zone', t)
           ELSE \/ "verification" \in job[j].todo \cup {job[j].slot}
                \/ Want("verification") \in Says(zone', "verification")
<1>1. Good(job[j])
  BY DEF IInv, Undisturbed
<1>2. "verification" \in Types \ {"mx"}
  OBVIOUS
<1>3. \A t \in Types \ {"mx"} : Holds(t) => Want(t) \in Says(zone', t)
  BY Carried
<1> QED
  BY <1>1, <1>2, <1>3 DEF Good, Due

-----------------------------------------------------------------------------
(* One lemma for each action of a job. *)

\* A fix looks at no list before it has found the zone.
LEMMA FixingFacts ==
    ASSUME NEW order \in SUBSET Types, NEW answered, NEW x,
           x = Fixing(order, answered)
    PROVE  /\ x \in Job /\ ShapeOf(x)
           /\ x.seen = {} /\ x.done = {} /\ x.kind = "fix"
           /\ x.at \notin PastList
<1>1. PICK at \in {"failed", "complete", "zone"}, todo \in SUBSET Types,
           data \in SUBSET ({"verification", "profile"} \cup Parts) :
             x = [at |-> at, kind |-> "fix", todo |-> todo, seen |-> {},
                  data |-> data, done |-> {}, slot |-> "none",
                  want |-> "none", id |-> 0, left |-> {}]
  <2> DEFINE status == StatusOf(answered)
             known == DomainOnMxroute(View, answered)
             asked == IF order = {} THEN Missing(status) ELSE order
             at == IF \/ BuildSetupHealth(View, answered) = NoStatus
                      \/ asked \cap MailChecks # {} /\ ~known
                   THEN "failed"
                   ELSE IF asked = {} THEN "complete" ELSE "zone"
             todo == asked \ LooksGood(status)
             data == IF known THEN {"profile"} \cup Parts ELSE {}
  <2>1. at \in {"failed", "complete", "zone"}
    OBVIOUS
  <2>2. todo \in SUBSET Types
    BY DEF Missing
  <2>3. data \in SUBSET ({"verification", "profile"} \cup Parts)
    OBVIOUS
  <2>4. x = [at |-> at, kind |-> "fix", todo |-> todo, seen |-> {},
             data |-> data, done |-> {}, slot |-> "none", want |-> "none",
             id |-> 0, left |-> {}]
    BY DEF Fixing
  <2> HIDE DEF at, todo, data
  <2> QED
    BY <2>1, <2>2, <2>3, <2>4
<1>2. /\ x.at \in {"failed", "complete", "zone"}
      /\ x.seen = {} /\ x.done = {} /\ x.kind = "fix"
      /\ x.slot = "none" /\ x.left = {}
  BY <1>1
<1>3. x \in Job
  BY <1>1 DEF Job, Stages
<1> QED
  BY <1>2, <1>3 DEF ShapeOf, PastList, Calling

\* BeginFix: the job has found out what to fix.
LEMMA BeginFixKeeps ==
    ASSUME IInv, Remember, NEW j \in Jobs, NEW order \in Orders,
           NEW answered, BeginFix(j, order, answered)
    PROVE  IInv'
<1> PICK x : x = Fixing(order, answered)
  OBVIOUS
<1>1. order \in SUBSET Types
  OBVIOUS
<1>2. job' = [job EXCEPT ![j] = x] /\ UNCHANGED records /\ WorldStep
  BY DEF BeginFix, Begins, Becomes, WorldStep, IInv, TypeOK, mxroute, records
<1> QED
  BY <1>1, <1>2, FixingFacts, BlankKeeps

\* FixBulk: it is in the pool's queue.
LEMMA FixBulkKeeps ==
    ASSUME IInv, Remember, NEW j \in Jobs, NEW order \in Orders,
           NEW unhealthy, NEW answered, FixBulk(j, order, unhealthy, answered)
    PROVE  IInv'
<1> PICK x : x = [at |-> "queued", kind |-> "fix", todo |-> order,
                  seen |-> {}, data |-> {}, done |-> {}, slot |-> "none",
                  want |-> "none", id |-> 0, left |-> {}]
  OBVIOUS
<1>1. x \in Job
  BY DEF Job, Stages
<1>2. ShapeOf(x) /\ x.seen = {} /\ x.done = {} /\ x.at = "queued"
  BY DEF ShapeOf, Calling
<1>3. job' = [job EXCEPT ![j] = x] /\ UNCHANGED records /\ WorldStep
  BY DEF FixBulk, Begins, Becomes, WorldStep, IInv, TypeOK, mxroute, records
<1> QED
  BY <1>1, <1>2, <1>3, BlankKeeps DEF PastList, Calling

\* StartQueued: a thread of the pool takes it up.
LEMMA StartQueuedKeeps ==
    ASSUME IInv, Remember, NEW j \in Jobs, NEW answered,
           StartQueued(j, answered)
    PROVE  IInv'
<1> PICK x : x = Fixing(job[j].todo, answered)
  OBVIOUS
<1>1. job[j].todo \in SUBSET Types
  BY DEF IInv, TypeOK, Job
<1>2. job' = [job EXCEPT ![j] = x] /\ UNCHANGED records /\ WorldStep
  BY DEF StartQueued, Becomes, WorldStep, IInv, TypeOK, mxroute, records
<1> QED
  BY <1>1, <1>2, FixingFacts, BlankKeeps

\* BeginSetup: only the verification record at first.
LEMMA BeginSetupKeeps ==
    ASSUME IInv, Remember, NEW j \in Jobs, BeginSetup(j)
    PROVE  IInv'
<1> PICK x : x = [at |-> "zone", kind |-> "setup", todo |-> {"verification"},
                  seen |-> {}, data |-> {}, done |-> {}, slot |-> "none",
                  want |-> "none", id |-> 0, left |-> {}]
  OBVIOUS
<1>1. x \in Job
  BY DEF Job, Stages
<1>2. ShapeOf(x) /\ x.seen = {} /\ x.done = {} /\ x.at = "zone"
  BY DEF ShapeOf, Calling
<1>3. job' = [job EXCEPT ![j] = x] /\ UNCHANGED records /\ WorldStep
  BY DEF BeginSetup, Begins, Becomes, WorldStep, IInv, TypeOK, mxroute, records
<1> QED
  BY <1>1, <1>2, <1>3, BlankKeeps DEF PastList, Calling

\* EnsureZone: the list comes next.
LEMMA EnsureZoneKeeps ==
    ASSUME IInv, Remember, NEW j \in Jobs, EnsureZone(j)
    PROVE  IInv'
<1> PICK x : x = Stage(j, "list")
  OBVIOUS
<1>1. job[j] \in Job /\ ShapeOf(job[j]) /\ job[j].at = "zone"
  BY DEF IInv, TypeOK, Shapes, EnsureZone, At
<1>2. UNCHANGED records /\ WorldStep
  <2>1. hosted' \in BOOLEAN
    BY DEF EnsureZone, IInv, TypeOK
  <2>2. faults' \in 0..MaxUpsets
    BY FaultTyped DEF EnsureZone, IInv
  <2> QED
    BY <2>1, <2>2 DEF EnsureZone, WorldStep, IInv, TypeOK, mxroute
<1>3. CASE job' = [job EXCEPT ![j] = x]
  <2>1. x \in Job /\ x.at = "list" /\ x.seen = {} /\ x.done = {}
    BY <1>1 DEF Stage, Job, Stages, ShapeOf
  <2>2. ShapeOf(x)
    BY <1>1 DEF Stage, ShapeOf, Calling
  <2> QED
    BY <1>2, <1>3, <2>1, <2>2, BlankKeeps DEF PastList, Calling
<1>4. CASE Raises(j)
  <2>1. ZoneStep
    BY <1>2, QuietZone DEF WorldStep
  <2> QED
    BY <1>1, <1>2, <1>4, <2>1, FailureKeeps DEF At
<1> QED
  BY <1>3, <1>4 DEF EnsureZone, Becomes

\* ListRecords: what the list has is in the zone; a list that failed is noted.
LEMMA ListRecordsKeeps ==
    ASSUME IInv, Remember, NEW j \in Jobs, ListRecords(j)
    PROVE  IInv'
<1>1. job[j] \in Job /\ ShapeOf(job[j]) /\ job[j].at = "list"
  BY DEF IInv, TypeOK, Shapes, ListRecords, At
<1>2. UNCHANGED records /\ WorldStep
  <2>1. faults' \in 0..MaxUpsets
    BY FaultTyped DEF ListRecords, IInv
  <2> QED
    BY <2>1 DEF ListRecords, WorldStep, IInv, TypeOK, mxroute
<1>3. ZoneStep
  BY <1>2, QuietZone DEF WorldStep
<1>4. CASE Raises(j)
  BY <1>1, <1>2, <1>3, <1>4, FailureKeeps DEF At
<1>5. ASSUME NEW seen \in Listed, NEW data \in SUBSET Offered(j),
             IF seen = zone /\ data = Offered(j) THEN NoFault ELSE Fault,
             Becomes(j,
                [at |-> IF KeyMissing(j, data) THEN "failed" ELSE "deploy",
                 kind |-> job[j].kind, todo |-> job[j].todo, seen |-> seen,
                 data |-> data, done |-> {}, slot |-> "none",
                 want |-> "none", id |-> 0, left |-> {}])
      PROVE  IInv'
  <2> PICK at \in {"failed", "deploy"} :
           at = IF KeyMissing(j, data) THEN "failed" ELSE "deploy"
    OBVIOUS
  <2>2. data \subseteq {"verification", "profile"} \cup Parts /\ seen \subseteq Record
    BY <1>1 DEF Offered, Job, Listed, IInv, TypeOK
  <2>3. PICK x \in Job :
          /\ job' = [job EXCEPT ![j] = x]
          /\ x.at = at /\ x.kind = job[j].kind /\ x.todo = job[j].todo
          /\ x.seen = seen /\ x.data = data /\ x.done = {}
          /\ x.slot = "none" /\ x.left = {}
    <3> DEFINE y == [at |-> at, kind |-> job[j].kind, todo |-> job[j].todo,
                     seen |-> seen, data |-> data, done |-> {},
                     slot |-> "none", want |-> "none", id |-> 0, left |-> {}]
    <3>1. y \in Job
      BY <1>1, <2>2 DEF Job, Stages
    <3>2. job' = [job EXCEPT ![j] = y]
      BY <1>5 DEF Becomes
    <3> QED
      BY <3>1, <3>2
  <2>4. ShapeOf(x)
    BY <2>3 DEF ShapeOf, Calling
  <2>5. job'[j] = x
    BY <2>3 DEF IInv, TypeOK
  <2>6. x.at = "deploy" /\ x.kind = "setup" =>
          x.todo = {"verification"} /\ "profile" \notin x.data
    BY <1>1, <2>3 DEF ShapeOf, Offered, KeyMissing
  <2>7. ASSUME ~disturbed' PROVE Good(job[j])'
    <3>1. \A t \in Types : Want(t)' = Want(t)
      BY <1>2 DEF WorldStep, saved, Want, Effective
    <3>2. x.at = "deploy" => misread' \/ seen = zone
      BY <1>1, <1>2, <2>3, <2>5, <2>7, StillUndisturbed DEF WorldStep, At
    <3>4. \A t \in Types : Want(t)' \in Says(x.seen, t) => Holds(t)'
      BY <1>2, <2>3 DEF Listed, Says, Of, records, Holds
    <3>5. \A t \in Types :
              x.at = "deploy" /\ ~misread' /\ Of(x.seen, t) = {} =>
                  \A r \in Of(zone', t) : r.content = Want(t)'
      BY <1>2, <2>3, <3>2 DEF records
    <3>6. /\ x.at \notin Calling \cup {"extras", "profile"}
          /\ x.at \in PastList \cup {"complete"} => x.at = "deploy"
          /\ x.done = {}
      BY <2>3 DEF Calling, PastList
    <3>7. x.at \in PastList \cup {"complete"} /\ x.kind = "setup" =>
              "profile" \notin x.data /\ "verification" \in x.todo \cup {x.slot}
      BY <2>6, <3>6
    <3> QED
      BY <2>5, <3>4, <3>5, <3>6, <3>7 DEF Good
  <2>8. Ids'
    <3>1. \A k \in Jobs \ {j} : job'[k] = job[k]
      BY <2>3 DEF IInv, TypeOK
    <3>2. zone' = zone /\ ids' = ids
      BY <1>2 DEF records
    <3>3. job'[j].seen \subseteq zone
      BY <2>3, <2>5 DEF Listed
    <3> QED
      BY <1>3, <3>1, <3>2, <3>3, IdsKept DEF ZoneStep
  <2> QED
    BY <1>2, <1>3, <2>3, <2>4, <2>7, <2>8, MoveKeeps
<1> QED
  BY <1>4, <1>5 DEF ListRecords

\* EndOfTypes: nothing is left to do.
LEMMA EndOfTypesKeeps ==
    ASSUME IInv, Remember, NEW j \in Jobs, EndOfTypes(j)
    PROVE  IInv'
<1> PICK at \in {"register", "complete"} :
      at = IF job[j].kind = "setup" /\ "profile" \notin job[j].data
           THEN "register" ELSE "complete"
  OBVIOUS
<1> PICK x : x = Stage(j, at)
  OBVIOUS
<1>1. /\ job[j] \in Job /\ ShapeOf(job[j])
      /\ job[j].at = "deploy" /\ job[j].todo = {}
  BY DEF IInv, TypeOK, Shapes, EndOfTypes, At
<1>2. UNCHANGED records /\ WorldStep /\ job' = [job EXCEPT ![j] = x]
  BY DEF EndOfTypes, WorldStep, IInv, TypeOK, mxroute, Becomes
<1>3. ZoneStep
  BY <1>2, QuietZone DEF WorldStep
<1>4. /\ x \in Job /\ x.at = at /\ x.slot = "none"
      /\ x.kind = job[j].kind /\ x.todo = job[j].todo
      /\ x.seen = job[j].seen /\ x.data = job[j].data
      /\ x.done = job[j].done /\ x.left = {}
  BY <1>1 DEF Stage, Job, Stages
<1>5. ShapeOf(x)
  BY <1>1, <1>4 DEF ShapeOf, Calling
<1>6. job[j].slot = "none" /\ job[j].at \in PastList
  BY <1>1 DEF ShapeOf, Calling, PastList
<1>7. ~disturbed => \A t \in x.done \ {"mx"} : Want(t) \in Says(zone', t)
  BY <1>3, <1>4, Carried DEF ZoneStep
<1>8. ASSUME ~disturbed, x.kind = "setup"
      PROVE  IF "profile" \in x.data
             THEN /\ onMx'
                  /\ \A u \in Due(x.data) \ ({x.slot} \cup x.todo) :
                        Want(u) \in Says(zone', u)
             ELSE \/ "verification" \in x.todo \cup {x.slot}
                  \/ Want("verification") \in Says(zone', "verification")
  <2>1. Steady /\ (onMx => onMx')
    BY <1>2, <1>3, <1>8 DEF ZoneStep, WorldStep
  <2>2. /\ x.data = job[j].data /\ x.todo = job[j].todo
        /\ x.slot = job[j].slot /\ job[j].kind = "setup"
    BY <1>4, <1>6, <1>8
  <2> QED
    BY <1>6, <1>8, <2>1, <2>2, SetupCarried
<1> QED
  BY <1>1, <1>2, <1>3, <1>4, <1>5, <1>6, <1>7, <1>8, ListedKeeps
     DEF At, Calling

\* Skipped: the type is left as it is.
LEMMA SkippedKeeps ==
    ASSUME IInv, Remember, NEW j \in Jobs, At(j, "deploy"), NEW t \in Types,
           job' = [job EXCEPT ![j] = Skipped(j, t)],
           UNCHANGED records, WorldStep,
           t \in Due(job[j].data) => Want(t) \in Says(job[j].seen, t)
    PROVE  IInv'
<1>1. /\ job[j] \in Job /\ ShapeOf(job[j]) /\ job[j].at = "deploy"
      /\ job[j].slot = "none" /\ job[j].at \in PastList
  BY DEF IInv, TypeOK, Shapes, ShapeOf, At, Calling, PastList
<1>2. PICK x \in Job :
        /\ job' = [job EXCEPT ![j] = x]
        /\ x.at = "deploy" /\ x.slot = "none" /\ x.left = {}
        /\ x.kind = job[j].kind /\ x.todo = job[j].todo \ {t}
        /\ x.seen = job[j].seen /\ x.data = job[j].data
        /\ x.done = job[j].done
  <2>1. Skipped(j, t) \in Job
    BY <1>1 DEF Skipped, Job, Stages
  <2> QED
    BY <2>1 DEF Skipped
<1>3. ShapeOf(x)
  BY <1>2 DEF ShapeOf, Calling
<1>4. ZoneStep
  BY QuietZone DEF WorldStep
<1>5. ASSUME ~disturbed
      PROVE  /\ \A u \in x.done \ {"mx"} : Want(u) \in Says(zone', u)
             /\ t \in Due(job[j].data) => Want(t) \in Says(zone', t)
  BY <1>2, <1>4, <1>5, Carried DEF ZoneStep, Due
<1>6. ASSUME ~disturbed, x.kind = "setup"
      PROVE  IF "profile" \in x.data
             THEN /\ onMx'
                  /\ \A u \in Due(x.data) \ ({x.slot} \cup x.todo) :
                        Want(u) \in Says(zone', u)
             ELSE \/ "verification" \in x.todo \cup {x.slot}
                  \/ Want("verification") \in Says(zone', "verification")
  <2>1. IF "profile" \in job[j].data
        THEN /\ onMx'
             /\ \A u \in Due(job[j].data) \ ({job[j].slot} \cup job[j].todo) :
                   Want(u) \in Says(zone', u)
        ELSE \/ "verification" \in job[j].todo \cup {job[j].slot}
             \/ Want("verification") \in Says(zone', "verification")
    BY <1>1, <1>2, <1>4, <1>6, SetupCarried DEF ZoneStep, WorldStep
  <2>2. CASE "profile" \in x.data
    BY <1>1, <1>2, <1>5, <1>6, <2>1, <2>2 DEF Due
  <2>3. CASE "profile" \notin x.data
    <3>1. "verification" \in Due(job[j].data)
      BY DEF Due, Skips, Parts
    <3> QED
      BY <1>1, <1>2, <1>5, <1>6, <2>1, <2>3, <3>1
  <2> QED
    BY <2>2, <2>3
<1> QED
  BY <1>1, <1>2, <1>3, <1>4, <1>5, <1>6, ListedKeeps DEF At, Calling

\* Call: the job turns to a type.
LEMMA CallKeeps ==
    ASSUME IInv, Remember, NEW j \in Jobs, At(j, "deploy"), NEW t \in Types,
           NEW at \in {"put", "post", "mx"}, NEW want \in Contents \cup {"none"},
           NEW id \in Nat, NEW left \in SUBSET (Nat \cup MxHosts),
           Becomes(j, Call(j, at, t, want, id, left)),
           UNCHANGED records, WorldStep,
           at \in {"put", "post"} => t # "mx" /\ want = Want(t),
           at = "put" =>
               /\ id \in Named(job[j].seen, t)
               /\ left \subseteq Named(job[j].seen, t) \ {id},
           at = "post" => Of(job[j].seen, t) = {} /\ left = {},
           at = "mx" => t = "mx" /\ left \subseteq MxHosts
    PROVE  IInv'
<1>1. /\ job[j] \in Job /\ ShapeOf(job[j]) /\ job[j].at = "deploy"
      /\ job[j].slot = "none" /\ job[j].at \in PastList
  BY DEF IInv, TypeOK, Shapes, ShapeOf, At, Calling, PastList
<1>2. PICK x \in Job :
        /\ job' = [job EXCEPT ![j] = x]
        /\ x.at = at /\ x.slot = t /\ x.want = want /\ x.id = id
        /\ x.left = left
        /\ x.kind = job[j].kind /\ x.todo = job[j].todo \ {t}
        /\ x.seen = job[j].seen /\ x.data = job[j].data
        /\ x.done = job[j].done
  <2>1. Call(j, at, t, want, id, left) \in Job
    BY <1>1 DEF Call, Job, Stages
  <2> QED
    BY <2>1 DEF Call, Becomes
<1>3. ShapeOf(x)
  BY <1>2, WantTyped DEF ShapeOf, Calling, IInv
<1>4. ZoneStep
  BY QuietZone DEF WorldStep
<1>5. ~disturbed => \A u \in x.done \ {"mx"} : Want(u) \in Says(zone', u)
  BY <1>2, <1>4, Carried DEF ZoneStep
<1>6. ASSUME ~disturbed, x.kind = "setup"
      PROVE  IF "profile" \in x.data
             THEN /\ onMx'
                  /\ \A u \in Due(x.data) \ ({x.slot} \cup x.todo) :
                        Want(u) \in Says(zone', u)
             ELSE \/ "verification" \in x.todo \cup {x.slot}
                  \/ Want("verification") \in Says(zone', "verification")
  <2>1. IF "profile" \in job[j].data
        THEN /\ onMx'
             /\ \A u \in Due(job[j].data) \ ({job[j].slot} \cup job[j].todo) :
                   Want(u) \in Says(zone', u)
        ELSE \/ "verification" \in job[j].todo \cup {job[j].slot}
             \/ Want("verification") \in Says(zone', "verification")
    BY <1>1, <1>2, <1>4, <1>6, SetupCarried DEF ZoneStep, WorldStep
  <2>2. {"mx", job[j].slot} \cup job[j].todo \subseteq
          {"mx", x.slot} \cup x.todo \cup {"none"}
    BY <1>1, <1>2
  <2>3. CASE "profile" \in x.data
    <3>1. "none" \notin Types
      BY DEF Checks, MailChecks
    <3> QED
      BY <1>2, <2>1, <2>2, <2>3, <3>1 DEF Due
  <2>4. CASE "profile" \notin x.data
    BY <1>1, <1>2, <2>1, <2>4
  <2> QED
    BY <2>3, <2>4
<1>7. x.at \in Calling => x.want = Want(x.slot)
  BY <1>2 DEF Calling
<1> QED
  BY <1>1, <1>2, <1>3, <1>4, <1>5, <1>6, <1>7, ListedKeeps DEF At, Calling

\* StartType: an upsert looks for a right record, then for any.
LEMMA StartTypeKeeps ==
    ASSUME IInv, Remember, NEW j \in Jobs, NEW t \in Types, StartType(j, t)
    PROVE  IInv'
<1> PICK same : same = Of(job[j].seen, t)
  OBVIOUS
<1>1. UNCHANGED records /\ WorldStep /\ At(j, "deploy")
  BY DEF StartType, WorldStep, IInv, TypeOK, mxroute
<1>2. ZoneStep
  BY <1>1, QuietZone DEF WorldStep
<1>3. job[j] \in Job /\ same \in SUBSET Record
  BY DEF IInv, TypeOK, Job, Of
<1>4. CASE Raises(j)
  BY <1>1, <1>2, <1>4, FailureKeeps DEF At
<1>5. CASE Skips(job[j].data, t) /\ Becomes(j, Skipped(j, t))
  BY <1>1, <1>5, SkippedKeeps DEF Due, Becomes
<1>6. CASE t = "mx" /\ Becomes(j, AddHosts(j, MxHosts \ Says(job[j].seen, t)))
  <2>1. CASE job' = [job EXCEPT ![j] = Skipped(j, t)]
    BY <1>1, <1>6, <2>1, SkippedKeeps DEF Due
  <2>2. ASSUME NEW hosts \in SUBSET MxHosts,
               Becomes(j, Call(j, "mx", t, "none", 0, hosts))
        PROVE  IInv'
    BY <1>1, <1>6, <2>2, CallKeeps
  <2> QED
    BY <1>6, <2>1, <2>2 DEF AddHosts, Becomes
<1>7. CASE t # "mx" /\ Upsert(j, t, same)
  <2>1. CASE RightIn(same, Want(t)) /\ job' = [job EXCEPT ![j] = Skipped(j, t)]
    <3>1. Want(t) \in Says(job[j].seen, t)
      BY <2>1 DEF RightIn, Says
    <3> QED
      BY <1>1, <2>1, <3>1, SkippedKeeps
  <2>2. ASSUME NEW first \in same,
               Becomes(j, Call(j, "put", t, Want(t), first.id,
                               Extras(same, first)))
        PROVE  IInv'
    <3>1. \A r \in same, s \in same : r.id = s.id => r = s
      BY DEF Of, IInv, Ids
    <3>2. Extras(same, first) \subseteq {r.id : r \in same} \ {first.id}
      BY <3>1 DEF Extras
    <3>3. first.id \in Nat /\ Extras(same, first) \in SUBSET (Nat \cup MxHosts)
      BY <1>3, <3>2 DEF Record
    <3>4. Want(t) \in Contents \cup {"none"} /\ first.id \in {r.id : r \in same}
      BY WantTyped DEF IInv
    <3> PICK left \in SUBSET (Nat \cup MxHosts), id \in Nat :
          left = Extras(same, first) /\ id = first.id
      BY <3>3
    <3>5. /\ id \in Named(job[j].seen, t)
          /\ left \subseteq Named(job[j].seen, t) \ {id}
      BY <3>2, <3>4 DEF Named
    <3> PICK want \in Contents \cup {"none"} : want = Want(t)
      BY <3>4
    <3>6. Becomes(j, Call(j, "put", t, want, id, left))
      BY <2>2
    <3>7. t # "mx"
      BY <1>7
    <3> QED
      BY <1>1, <3>5, <3>6, <3>7, CallKeeps
  <2>3. CASE /\ same = {}
             /\ Becomes(j, Call(j, "post", t, Want(t), 0, {}))
    <3>1. Want(t) \in Contents \cup {"none"}
      BY WantTyped DEF IInv
    <3> QED
      BY <1>1, <1>7, <2>3, <3>1, CallKeeps
  <2> QED
    BY <1>7, <2>1, <2>2, <2>3 DEF Upsert, Replaces, Becomes
<1> QED
  BY <1>4, <1>5, <1>6, <1>7 DEF StartType

\* Written: the type's last call was made.
LEMMA WrittenKeeps ==
    ASSUME IInv, Remember, NEW j \in Jobs, job[j].at \in Calling \cup {"mx"},
           job' = [job EXCEPT ![j] = Written(j)], ZoneStep, WorldStep,
           ~disturbed /\ job[j].slot # "mx" =>
               Want(job[j].slot) \in Says(zone', job[j].slot)
    PROVE  IInv'
<1>1. /\ job[j] \in Job /\ ShapeOf(job[j]) /\ job[j].slot \in Types
      /\ job[j].at \in PastList /\ ~At(j, "none")
  <2>1. job[j] \in Job /\ ShapeOf(job[j])
    BY DEF IInv, TypeOK, Shapes
  <2>2. job[j].slot \in Types
    BY <2>1 DEF ShapeOf, Job
  <2> QED
    BY <2>1, <2>2 DEF At, Calling, PastList
<1>2. PICK x \in Job :
        /\ job' = [job EXCEPT ![j] = x]
        /\ x.at = "deploy" /\ x.slot = "none" /\ x.left = {}
        /\ x.kind = job[j].kind /\ x.todo = job[j].todo
        /\ x.seen = job[j].seen /\ x.data = job[j].data
        /\ x.done = job[j].done \cup {job[j].slot}
  <2>1. Written(j) \in Job
    BY <1>1 DEF Written, Job, Stages
  <2> QED
    BY <2>1 DEF Written
<1>3. ShapeOf(x)
  BY <1>2 DEF ShapeOf, Calling
<1>4. ~disturbed => \A u \in x.done \ {"mx"} : Want(u) \in Says(zone', u)
  BY <1>2, Carried DEF ZoneStep
<1>5. ASSUME ~disturbed, x.kind = "setup"
      PROVE  IF "profile" \in x.data
             THEN /\ onMx'
                  /\ \A u \in Due(x.data) \ ({x.slot} \cup x.todo) :
                        Want(u) \in Says(zone', u)
             ELSE \/ "verification" \in x.todo \cup {x.slot}
                  \/ Want("verification") \in Says(zone', "verification")
  <2>1. IF "profile" \in job[j].data
        THEN /\ onMx'
             /\ \A u \in Due(job[j].data) \ ({job[j].slot} \cup job[j].todo) :
                   Want(u) \in Says(zone', u)
        ELSE \/ "verification" \in job[j].todo \cup {job[j].slot}
             \/ Want("verification") \in Says(zone', "verification")
    BY <1>1, <1>2, <1>5, SetupCarried DEF ZoneStep, WorldStep
  <2>2. CASE "profile" \in x.data
    BY <1>2, <1>5, <2>1, <2>2 DEF Due
  <2>3. CASE "profile" \notin x.data
    <3>1. CASE job[j].slot = "verification"
      BY <1>5, <2>3, <3>1
    <3>2. CASE job[j].slot # "verification"
      BY <1>2, <2>1, <2>3, <3>2
    <3> QED
      BY <3>1, <3>2
  <2> QED
    BY <2>2, <2>3
<1> QED
  BY <1>1, <1>2, <1>3, <1>4, <1>5, ListedKeeps DEF Calling

\* Goes: the type takes another call.
LEMMA GoesKeeps ==
    ASSUME IInv, Remember, NEW j \in Jobs, NEW at \in {"extras", "mx"},
           at = "mx" => job[j].at = "mx",
           at = "extras" => job[j].at \in {"put", "extras"},
           NEW left \in SUBSET job[j].left,
           job' = [job EXCEPT ![j] = Goes(j, at, left)], ZoneStep, WorldStep,
           ~disturbed /\ at = "extras" =>
               \E r \in Of(zone', job[j].slot) :
                   r.id = job[j].id /\ r.content = job[j].want
    PROVE  IInv'
<1>1. /\ job[j] \in Job /\ ShapeOf(job[j])
      /\ job[j].at \in PastList /\ ~At(j, "none")
      /\ at = "extras" => job[j].at \in Calling
  BY DEF IInv, TypeOK, Shapes, At, Calling, PastList
<1>2. PICK x \in Job :
        /\ job' = [job EXCEPT ![j] = x]
        /\ x.at = at /\ x.slot = job[j].slot /\ x.want = job[j].want
        /\ x.id = job[j].id /\ x.left = left
        /\ x.kind = job[j].kind /\ x.todo = job[j].todo
        /\ x.seen = job[j].seen /\ x.data = job[j].data
        /\ x.done = job[j].done
  <2>1. Goes(j, at, left) \in Job
    BY <1>1 DEF Goes, Job, Stages
  <2> QED
    BY <2>1 DEF Goes
<1>3. ShapeOf(x)
  BY <1>1, <1>2 DEF ShapeOf, Calling
<1>4. ~disturbed => /\ \A u \in x.done \ {"mx"} : Want(u) \in Says(zone', u)
                    /\ x.at \in Calling => x.want = Want(x.slot)
  BY <1>1, <1>2, Carried DEF ZoneStep, Calling
<1>5. ASSUME ~disturbed, x.kind = "setup"
      PROVE  IF "profile" \in x.data
             THEN /\ onMx'
                  /\ \A u \in Due(x.data) \ ({x.slot} \cup x.todo) :
                        Want(u) \in Says(zone', u)
             ELSE \/ "verification" \in x.todo \cup {x.slot}
                  \/ Want("verification") \in Says(zone', "verification")
  BY <1>1, <1>2, <1>5, SetupCarried DEF ZoneStep, WorldStep
<1>6. ASSUME ~disturbed, x.at = "extras"
      PROVE  \E r \in Of(zone', x.slot) : r.id = x.id /\ r.content = x.want
  BY <1>2, <1>6
<1>7. x.at \in {"extras", "mx"} /\ job[j].at # "none"
  BY <1>2
<1> QED
  BY <1>1, <1>2, <1>3, <1>4, <1>5, <1>6, <1>7, ListedKeeps DEF Calling

\* PutRecord: the first record of the name, or nothing.
LEMMA PutRecordKeeps ==
    ASSUME IInv, Remember, NEW j \in Jobs, PutRecord(j)
    PROVE  IInv'
<1>1. WorldStep /\ ids' = ids /\ saved' = saved /\ At(j, "put")
  <2>1. faults' \in 0..MaxUpsets
    BY FaultTyped DEF PutRecord, IInv
  <2> QED
    BY <2>1 DEF PutRecord, WorldStep, IInv, TypeOK, mxroute
<1>2. CASE Raises(j) /\ zone' = zone
  <2>1. ZoneStep
    BY <1>1, <1>2, QuietZone DEF records
  <2> QED
    BY <1>1, <1>2, <2>1, FailureKeeps DEF At
<1>3. CASE PutAccepted(j) /\ zone' = Replaced(j)
  <2>1. ZoneStep
    BY <1>1, <1>3, PutZone
  <2>2. ~disturbed => Want(job[j].slot) \in Says(zone', job[j].slot)
    BY <1>1, <1>3, PutSteady
  <2>3. CASE Raises(j)
    BY <1>1, <2>1, <2>3, FailureKeeps DEF At
  <2>4. CASE job' = [job EXCEPT ![j] = Written(j)]
    BY <1>1, <2>1, <2>2, <2>4, WrittenKeeps DEF At, Calling
  <2>5. CASE job' = [job EXCEPT ![j] = Goes(j, "extras", job[j].left)]
    <3> PICK n : n = [slot |-> job[j].slot, id |-> job[j].id,
                      content |-> job[j].want]
      OBVIOUS
    <3>1. /\ n \in Of(zone', job[j].slot)
          /\ n.id = job[j].id /\ n.content = job[j].want
      BY <1>3 DEF Replaced, Of
    <3>2. \E r \in Of(zone', job[j].slot) :
              r.id = job[j].id /\ r.content = job[j].want
      BY <3>1
    <3>3. PICK left \in SUBSET job[j].left :
             job' = [job EXCEPT ![j] = Goes(j, "extras", left)]
      BY <2>5
    <3>4. job[j].at \in {"put", "extras"}
      BY <1>1 DEF At
    <3> QED
      BY <1>1, <2>1, <3>2, <3>3, <3>4, GoesKeeps
  <2> QED
    BY <1>3, <2>3, <2>4, <2>5 DEF PutRecord, Becomes
<1> QED
  BY <1>2, <1>3 DEF PutRecord

\* PostRecord: a record more, or nothing.
LEMMA PostRecordKeeps ==
    ASSUME IInv, Remember, NEW j \in Jobs, PostRecord(j)
    PROVE  IInv'
<1>1. WorldStep /\ saved' = saved /\ At(j, "post")
  <2>1. faults' \in 0..MaxUpsets
    BY FaultTyped DEF PostRecord, IInv
  <2> QED
    BY <2>1 DEF PostRecord, WorldStep, IInv, TypeOK, mxroute
<1>2. CASE Raises(j) /\ UNCHANGED records
  <2>1. ZoneStep
    BY <1>1, <1>2, QuietZone
  <2> QED
    BY <1>1, <1>2, <2>1, FailureKeeps DEF At
<1>3. CASE Accepts(job[j].slot, job[j].want, 0) /\ Add(job[j].slot, job[j].want)
  <2>1. /\ job[j].slot \in Types /\ job[j].want \in Contents
        /\ ~disturbed => job[j].want = Want(job[j].slot)
    BY <1>1, CallFacts DEF At, Calling
  <2>2. ZoneStep
    BY <1>1, <1>3, <2>1, AddZone DEF Add, Accepts
  <2>3. ~disturbed => Want(job[j].slot) \in Says(zone', job[j].slot)
    <3> PICK n : n = [slot |-> job[j].slot, id |-> ids + 1,
                      content |-> job[j].want]
      OBVIOUS
    <3>1. n \in Of(zone', job[j].slot) /\ n.content = job[j].want
      BY <1>3 DEF Add, Of
    <3> QED
      BY <2>1, <3>1 DEF Says
  <2>4. CASE Raises(j)
    BY <1>1, <2>2, <2>4, FailureKeeps DEF At
  <2>5. CASE job' = [job EXCEPT ![j] = Written(j)]
    BY <1>1, <2>2, <2>3, <2>5, WrittenKeeps DEF At, Calling
  <2> QED
    BY <1>3, <2>4, <2>5 DEF PostRecord, Becomes
<1> QED
  BY <1>2, <1>3 DEF PostRecord

\* DropExtra: a record less, or nothing.
LEMMA DropExtraKeeps ==
    ASSUME IInv, Remember, NEW j \in Jobs, NEW i, DropExtra(j, i)
    PROVE  IInv'
<1>1. /\ WorldStep /\ ids' = ids /\ saved' = saved /\ At(j, "extras")
      /\ i \in job[j].left
  <2>1. faults' \in 0..MaxUpsets
    BY FaultTyped DEF DropExtra, IInv
  <2> QED
    BY <2>1 DEF DropExtra, WorldStep, IInv, TypeOK, mxroute
<1>2. ZoneStep
  <2>1. CASE zone' = zone
    BY <1>1, <2>1, QuietZone DEF records
  <2>2. CASE zone' = {r \in zone : r.id # i}
    BY <1>1, <2>2, DropZone
  <2> QED
    BY <2>1, <2>2 DEF DropExtra
<1>3. ASSUME ~disturbed
      PROVE  /\ \E r \in Of(zone', job[j].slot) :
                   r.id = job[j].id /\ r.content = job[j].want
             /\ job[j].want = Want(job[j].slot)
  BY <1>1, <1>2, <1>3, Carried DEF At, Calling, ZoneStep
<1>4. CASE Raises(j)
  BY <1>1, <1>2, <1>4, FailureKeeps DEF At
<1>5. CASE job' = [job EXCEPT ![j] = Written(j)]
  <2>1. ~disturbed => Want(job[j].slot) \in Says(zone', job[j].slot)
    BY <1>3 DEF Says
  <2> QED
    BY <1>1, <1>2, <1>5, <2>1, WrittenKeeps DEF At, Calling
<1>6. CASE job' = [job EXCEPT ![j] = Goes(j, "extras", job[j].left \ {i})]
  <2>1. PICK left \in SUBSET job[j].left :
           job' = [job EXCEPT ![j] = Goes(j, "extras", left)]
    BY <1>6
  <2>2. job[j].at \in {"put", "extras"}
    BY <1>1 DEF At
  <2> QED
    BY <1>1, <1>2, <1>3, <2>1, <2>2, GoesKeeps
<1> QED
  BY <1>4, <1>5, <1>6 DEF DropExtra, Becomes

\* PostMx: a host more, or nothing.
LEMMA PostMxKeeps ==
    ASSUME IInv, Remember, NEW j \in Jobs, NEW h, PostMx(j, h)
    PROVE  IInv'
<1>1. /\ WorldStep /\ saved' = saved /\ At(j, "mx")
      /\ job[j].slot = "mx" /\ h \in MxHosts
  <2>1. faults' \in 0..MaxUpsets
    BY FaultTyped DEF PostMx, IInv
  <2>2. At(j, "mx") /\ ShapeOf(job[j]) /\ h \in job[j].left
    BY DEF PostMx, IInv, Shapes
  <2> QED
    BY <2>1, <2>2 DEF PostMx, WorldStep, IInv, TypeOK, mxroute, ShapeOf, At
<1>2. ZoneStep
  <2>1. CASE UNCHANGED records
    BY <1>1, <2>1, QuietZone
  <2>2. CASE Accepts("mx", h, 0) /\ Add("mx", h)
    <3>1. h \in Contents
      BY <1>1 DEF Contents
    <3>2. "mx" \in Types
      BY <1>1 DEF IInv, TypeOK, Job
    <3> QED
      BY <1>1, <2>2, <3>1, <3>2, AddZone DEF Add, Accepts
  <2> QED
    BY <2>1, <2>2 DEF PostMx
<1>4. CASE Raises(j)
  BY <1>1, <1>2, <1>4, FailureKeeps DEF At
<1>5. CASE job' = [job EXCEPT ![j] = Written(j)]
  BY <1>1, <1>2, <1>5, WrittenKeeps DEF At
<1>6. CASE job' = [job EXCEPT ![j] = Goes(j, "mx", job[j].left \ {h})]
  <2>1. PICK left \in SUBSET job[j].left :
           job' = [job EXCEPT ![j] = Goes(j, "mx", left)]
    BY <1>6
  <2>2. job[j].at = "mx"
    BY <1>1 DEF At
  <2> QED
    BY <1>1, <1>2, <2>1, <2>2, GoesKeeps
<1> QED
  BY <1>4, <1>5, <1>6 DEF PostMx, Becomes

\* Register: the domain is with MXroute, and stays.
LEMMA RegisterKeeps ==
    ASSUME IInv, Remember, NEW j \in Jobs, Register(j)
    PROVE  IInv'
<1>1. /\ job[j] \in Job /\ ShapeOf(job[j]) /\ job[j].at = "register"
      /\ job[j].at \in PastList
  BY DEF IInv, TypeOK, Shapes, Register, At, PastList, Calling
<1>2. UNCHANGED records /\ WorldStep
  <2>1. faults' \in 0..MaxUpsets
    BY FaultTyped DEF Register, IInv
  <2>2. onMx' \in BOOLEAN /\ (onMx => onMx')
    <3>1. onMx' = TRUE \/ onMx' = onMx
      BY Zenon DEF Register
    <3>2. onMx \in BOOLEAN
      BY DEF IInv, TypeOK
    <3>3. CASE onMx' = TRUE
      BY <3>3
    <3>4. CASE onMx' = onMx
      BY <3>2, <3>4
    <3> QED
      BY <3>1, <3>3, <3>4
  <2> QED
    BY <2>1, <2>2 DEF Register, WorldStep, IInv, TypeOK
<1>3. ZoneStep
  BY <1>2, QuietZone DEF WorldStep
<1>4. CASE Raises(j)
  BY <1>1, <1>2, <1>3, <1>4, FailureKeeps DEF At
<1>5. CASE onMx' = TRUE /\ job' = [job EXCEPT ![j] = Stage(j, "profile")]
  <2>1. PICK x \in Job :
          /\ job' = [job EXCEPT ![j] = x]
          /\ x.at = "profile" /\ x.slot = "none" /\ x.left = {}
          /\ x.kind = job[j].kind /\ x.todo = job[j].todo
          /\ x.seen = job[j].seen /\ x.data = job[j].data
          /\ x.done = job[j].done
    <3>1. Stage(j, "profile") \in Job
      BY <1>1 DEF Stage, Job, Stages
    <3> QED
      BY <1>5, <3>1 DEF Stage
  <2>2. ShapeOf(x) /\ job[j].slot = "none"
    BY <1>1, <2>1 DEF ShapeOf, Calling
  <2>3. ~disturbed => \A u \in x.done \ {"mx"} : Want(u) \in Says(zone', u)
    BY <1>3, <2>1, Carried DEF ZoneStep
  <2>4. ASSUME ~disturbed, x.kind = "setup"
        PROVE  IF "profile" \in x.data
               THEN /\ onMx'
                    /\ \A u \in Due(x.data) \ ({x.slot} \cup x.todo) :
                          Want(u) \in Says(zone', u)
               ELSE \/ "verification" \in x.todo \cup {x.slot}
                    \/ Want("verification") \in Says(zone', "verification")
    BY <1>1, <1>2, <1>3, <2>1, <2>2, <2>4, SetupCarried
       DEF ZoneStep, WorldStep
  <2> QED
    BY <1>1, <1>2, <1>3, <1>5, <2>1, <2>2, <2>3, <2>4, ListedKeeps
       DEF At, Calling
<1> QED
  BY <1>4, <1>5 DEF Register, Becomes

\* ReadProfile: the mail records come next.
LEMMA ReadProfileKeeps ==
    ASSUME IInv, Remember, NEW j \in Jobs, ReadProfile(j)
    PROVE  IInv'
<1>1. /\ job[j] \in Job /\ ShapeOf(job[j]) /\ job[j].at = "profile"
      /\ job[j].at \in PastList
  BY DEF IInv, TypeOK, Shapes, ReadProfile, At, PastList, Calling
<1>2. UNCHANGED records /\ WorldStep
  <2>1. faults' \in 0..MaxUpsets
    BY FaultTyped DEF ReadProfile, IInv
  <2> QED
    BY <2>1 DEF ReadProfile, WorldStep, IInv, TypeOK, mxroute
<1>3. ZoneStep
  BY <1>2, QuietZone DEF WorldStep
<1>4. CASE Raises(j)
  BY <1>1, <1>2, <1>3, <1>4, FailureKeeps DEF At
<1>5. ASSUME onMx, NEW parts \in SUBSET Parts,
             Becomes(j,
               [at |-> "deploy", kind |-> "setup", todo |-> MailTypes,
                seen |-> job[j].seen,
                data |-> job[j].data \cup {"profile"} \cup parts,
                done |-> job[j].done, slot |-> "none", want |-> "none",
                id |-> 0, left |-> {}])
      PROVE  IInv'
  <2>1. PICK x \in Job :
          /\ job' = [job EXCEPT ![j] = x]
          /\ x.at = "deploy" /\ x.slot = "none" /\ x.left = {}
          /\ x.kind = "setup" /\ x.todo = MailTypes
          /\ x.seen = job[j].seen
          /\ x.data = job[j].data \cup {"profile"} \cup parts
          /\ x.done = job[j].done
    <3> DEFINE y == [at |-> "deploy", kind |-> "setup", todo |-> MailTypes,
                     seen |-> job[j].seen,
                     data |-> job[j].data \cup {"profile"} \cup parts,
                     done |-> job[j].done, slot |-> "none", want |-> "none",
                     id |-> 0, left |-> {}]
    <3>1. y \in Job
      BY <1>1 DEF Job, Stages, MailTypes
    <3>2. job' = [job EXCEPT ![j] = y]
      BY <1>5 DEF Becomes
    <3> QED
      BY <3>1, <3>2
  <2>2. ShapeOf(x)
    BY <2>1 DEF ShapeOf, Calling
  <2>3. /\ job[j].slot = "none" /\ job[j].todo = {}
        /\ job[j].kind = "setup" /\ "profile" \notin job[j].data
    BY <1>1 DEF ShapeOf, Calling
  <2>4. ~disturbed => \A u \in x.done \ {"mx"} : Want(u) \in Says(zone', u)
    BY <1>3, <2>1, Carried DEF ZoneStep
  <2>5. ASSUME ~disturbed
        PROVE  /\ onMx'
               /\ \A u \in Due(x.data) \ ({x.slot} \cup x.todo) :
                     Want(u) \in Says(zone', u)
    <3>1. Want("verification") \in Says(zone', "verification")
      BY <1>1, <1>2, <1>3, <2>3, <2>5, SetupCarried DEF ZoneStep, WorldStep
    <3>2. \A u \in Types \ x.todo : u = "verification"
      BY <2>1 DEF MailTypes, Checks
    <3> QED
      BY <1>2, <1>5, <3>1, <3>2 DEF WorldStep, Due
  <2>6. "profile" \in x.data
    BY <2>1
  <2> QED
    BY <1>1, <1>2, <1>3, <2>1, <2>2, <2>4, <2>5, <2>6, ListedKeeps
       DEF At, Calling
<1> QED
  BY <1>4, <1>5 DEF ReadProfile

\* AnswerJob and KillJob: the job is gone.
LEMMA GoneKeeps ==
    ASSUME IInv, Remember, NEW j \in Jobs, AnswerJob(j) \/ KillJob(j)
    PROVE  IInv'
<1>1. UNCHANGED records /\ WorldStep /\ job' = [job EXCEPT ![j] = NoJob]
  <2>1. faults' \in 0..MaxUpsets
    BY FaultTyped DEF AnswerJob, KillJob, IInv, TypeOK
  <2> QED
    BY <2>1 DEF AnswerJob, KillJob, WorldStep, IInv, TypeOK, mxroute, Becomes
<1>2. /\ NoJob \in Job /\ NoJob.at = "none"
      /\ NoJob.seen = {} /\ NoJob.done = {}
  BY DEF NoJob, Job, Stages
<1>3. ShapeOf(NoJob)
  BY DEF ShapeOf, NoJob, Calling
<1> QED
  BY <1>1, <1>2, <1>3, BlankKeeps DEF PastList, Calling

-----------------------------------------------------------------------------
(* What happens around the jobs. *)

\* Lists stay lists while no job moves.
LEMMA IdsStay ==
    ASSUME IInv, ids' \in {ids, ids + 1}, job' = job,
           \A s \in zone' : \/ s.id = ids + 1
                            \/ \E r \in zone : r.id = s.id /\ r.slot = s.slot
    PROVE  Ids'
<1>1. CASE Jobs = {}
  BY <1>1 DEF Ids
<1>2. ASSUME NEW j \in Jobs PROVE Ids'
  BY IdsKept
<1> QED
  BY <1>1, <1>2

\* Somebody changes something: jobs under way are disturbed, others know nothing.
LEMMA HandsKeep ==
    ASSUME IInv, Remember, ByHand, job' = job, ZoneTyped', Ids',
           hosted' = hosted, onMx' \in BOOLEAN, hosting' \in BOOLEAN,
           policy' \in Policies \cup {NoPolicy}, server' \in BOOLEAN,
           UNCHANGED <<begun, faults>>
    PROVE  IInv'
<1>1. hands' \in 0..MaxUpsets /\ hands' # hands
  <2>1. hands \in 0..MaxUpsets /\ faults \in 0..MaxUpsets /\ MaxUpsets \in Nat
    BY DEF IInv, TypeOK
  <2> QED
    BY <2>1 DEF ByHand
<1>2. TypeOK'
  BY <1>1 DEF TypeOK, ZoneTyped, Remember, IInv
<1>3. Shapes'
  BY DEF Shapes, IInv
<1>4. ASSUME ~disturbed', NEW j \in Jobs PROVE Good(job[j])'
  <2>1. At(j, "none")
    BY <1>1, <1>4 DEF Remember, Busy, At
  <2>2. job[j] = NoJob
    BY <2>1 DEF IInv, Shapes, ShapeOf, At
  <2> QED
    BY <2>2, BlankGood DEF NoJob, PastList, Calling
<1> QED
  BY <1>2, <1>3, <1>4 DEF IInv, Undisturbed, ZoneTyped

\* SetPolicy, ClearPolicy and ChangeServer.
LEMMA PolicyKeeps ==
    ASSUME IInv, Remember,
           \/ \E p \in Policies : SetPolicy(p)
           \/ ClearPolicy \/ ChangeServer
    PROVE  IInv'
<1>1. /\ ByHand /\ policy' \in Policies \cup {NoPolicy} /\ server' \in BOOLEAN
      /\ UNCHANGED <<hosted, records, mxroute, job, begun, faults>>
  BY DEF SetPolicy, ClearPolicy, ChangeServer, IInv, TypeOK
<1>2. ZoneTyped'
  BY <1>1 DEF records, ZoneTyped, IInv, TypeOK
<1>3. Ids'
  BY <1>1, IdsStay DEF records
<1> QED
  BY <1>1, <1>2, <1>3, HandsKeep DEF mxroute, IInv, TypeOK

\* ChangeDomain.
LEMMA ChangeDomainKeeps == ASSUME IInv, Remember, ChangeDomain PROVE IInv'
<1>1. /\ ByHand /\ onMx' \in BOOLEAN /\ hosting' \in BOOLEAN
      /\ UNCHANGED <<hosted, records, saved, job, begun, faults>>
  BY DEF ChangeDomain, IInv, TypeOK
<1>2. ZoneTyped'
  BY <1>1 DEF records, ZoneTyped, IInv, TypeOK
<1>3. Ids'
  BY <1>1, IdsStay DEF records
<1> QED
  BY <1>1, <1>2, <1>3, HandsKeep DEF saved, IInv, TypeOK

\* EditZone.
LEMMA EditZoneKeeps == ASSUME IInv, Remember, EditZone PROVE IInv'
<1>1. ByHand /\ UNCHANGED <<hosted, mxroute, saved, job, begun, faults>>
  BY DEF EditZone
<1>2. ZoneTyped /\ "other" \in Contents
  BY DEF ZoneTyped, IInv, TypeOK, Contents
<1>3. ASSUME NEW r \in zone, zone' = zone \ {r}, ids' = ids
      PROVE  ZoneTyped' /\ Ids'
  BY <1>1, <1>2, <1>3, IdsStay DEF ZoneTyped, Distinct
<1>4. ASSUME NEW t \in Types, Add(t, "other")
      PROVE  ZoneTyped' /\ Ids'
  <2>1. ZoneTyped'
    BY <1>2, <1>4, AddTyped
  <2>2. Ids'
    BY <1>1, <1>4, IdsStay DEF Add
  <2> QED
    BY <2>1, <2>2
<1>5. ZoneTyped' /\ Ids'
  BY <1>3, <1>4 DEF EditZone
<1> QED
  BY <1>1, <1>5, HandsKeep DEF mxroute, saved, IInv, TypeOK

\* Look.
LEMMA LookKeeps == ASSUME IInv, Remember, Look PROVE IInv'
<1>1. UNCHANGED <<hosted, zone, ids, onMx, hosting, policy, server, saved, job,
                  begun, faults, hands>>
  BY DEF Look, records, mxroute, saved
<1>2. TypeOK'
  BY <1>1 DEF TypeOK, Remember, IInv
<1>3. Shapes' /\ Ids' /\ Distinct(zone')
  BY <1>1 DEF Shapes, Ids, IInv
<1>4. ASSUME ~disturbed', NEW j \in Jobs PROVE Good(job[j])'
  BY <1>1, <1>4, SameSteady, OthersGood
<1> QED
  BY <1>2, <1>3, <1>4 DEF IInv, Undisturbed

-----------------------------------------------------------------------------
(* Theorems. *)

\* Jobs start with nothing.
LEMMA InitInv == Init => IInv
<1> SUFFICES ASSUME Init PROVE IInv
  OBVIOUS
<1>1. \A j \in Jobs : job[j] = NoJob
  BY DEF Init
<1>2. NoJob \in Job /\ ShapeOf(NoJob) /\ Good(NoJob)
  <2>1. NoJob \in Job
    BY DEF NoJob, Job, Stages
  <2>2. ShapeOf(NoJob)
    BY DEF ShapeOf, NoJob, Calling
  <2>3. Good(NoJob)
    BY DEF Good, NoJob, Calling, PastList, Of, Says
  <2> QED
    BY <2>1, <2>2, <2>3
<1>3. job \in [Jobs -> Job] /\ \A j \in Jobs : job[j].id \notin job[j].left
  BY <1>2 DEF Init, NoJob
<1>4. /\ zone \subseteq Record
      /\ \A r \in zone, s \in zone : r.id = s.id => r = s
      /\ ids \in Nat /\ \A r \in zone : r.id \in 1..ids
  BY DEF Init
<1>5. hosted \in BOOLEAN /\ onMx \in BOOLEAN /\ hosting \in BOOLEAN
  BY DEF Init
<1>6. TypeOK
  <2>1. begun \in 0..MaxJobs /\ faults \in 0..MaxUpsets /\ hands \in 0..MaxUpsets
    BY DEF Init
  <2>2. disturbed \in BOOLEAN /\ misread \in BOOLEAN
    BY DEF Init
  <2>3. policy \in Policies \cup {NoPolicy} /\ server \in BOOLEAN
    BY DEF Init
  <2> QED
    BY <1>3, <1>4, <1>5, <2>1, <2>2, <2>3 DEF TypeOK
<1>7. Shapes /\ Undisturbed
  BY <1>1, <1>2 DEF Shapes, Undisturbed
<1>8. Ids /\ Distinct(zone)
  BY <1>1 DEF Init, Ids, NoJob
<1> QED
  BY <1>6, <1>7, <1>8 DEF IInv

\* Every step keeps the invariant.
LEMMA NextInv == IInv /\ [Next]_vars => IInv'
<1> SUFFICES ASSUME IInv, [Next]_vars PROVE IInv'
  OBVIOUS
<1>1. CASE Next
  <2>1. Remember /\ Step
    BY <1>1 DEF Next
  <2>2. ASSUME NEW j \in Jobs, NEW answered \in Answers,
               \/ \E order \in Orders :
                     \/ BeginFix(j, order, answered)
                     \/ \E unhealthy \in BOOLEAN :
                           FixBulk(j, order, unhealthy, answered)
               \/ StartQueued(j, answered)
        PROVE  IInv'
    BY <2>1, <2>2, BeginFixKeeps, FixBulkKeeps, StartQueuedKeeps
  <2>3. ASSUME NEW j \in Jobs,
               \/ BeginSetup(j) \/ EnsureZone(j) \/ ListRecords(j)
               \/ \E t \in Types : StartType(j, t)
        PROVE  IInv'
    BY <2>1, <2>3, BeginSetupKeeps, EnsureZoneKeeps, ListRecordsKeeps,
       StartTypeKeeps
  <2>4. ASSUME NEW j \in Jobs,
               \/ PutRecord(j) \/ PostRecord(j)
               \/ \E i \in job[j].left : DropExtra(j, i) \/ PostMx(j, i)
        PROVE  IInv'
    BY <2>1, <2>4, PutRecordKeeps, PostRecordKeeps, DropExtraKeeps,
       PostMxKeeps
  <2>5. ASSUME NEW j \in Jobs,
               \/ EndOfTypes(j) \/ Register(j) \/ ReadProfile(j)
               \/ AnswerJob(j) \/ KillJob(j)
        PROVE  IInv'
    BY <2>1, <2>5, EndOfTypesKeeps, RegisterKeeps, ReadProfileKeeps, GoneKeeps
  <2>6. CASE \/ \E p \in Policies : SetPolicy(p)
             \/ ClearPolicy \/ EditZone \/ ChangeServer \/ ChangeDomain \/ Look
    BY <2>1, <2>6, PolicyKeeps, EditZoneKeeps, ChangeDomainKeeps, LookKeeps
  <2> QED
    BY <2>1, <2>2, <2>3, <2>4, <2>5, <2>6 DEF Step
<1>2. CASE UNCHANGED vars
  <2> USE DEF vars, records, mxroute, saved
  <2>1. TypeOK'
    BY <1>2 DEF TypeOK, IInv
  <2>2. Shapes' /\ Ids' /\ Distinct(zone')
    BY <1>2 DEF Shapes, Ids, IInv
  <2>3. ASSUME ~disturbed', NEW j \in Jobs PROVE Good(job[j])'
    BY <1>2, <2>3 DEF IInv, Undisturbed, Good, Holds, Want, Effective,
       Due, Skips
  <2> QED
    BY <2>1, <2>2, <2>3 DEF IInv, Undisturbed
<1> QED
  BY <1>1, <1>2

\* Types hold for every instance; an id names one record, and no job deletes
\* the record it has just written (cf_upsert_txt).
THEOREM TypeCorrectness == Spec => []TypeOK
<1>1. IInv => TypeOK
  BY DEF IInv
<1> QED
  BY <1>1, InitInv, NextInv, PTL DEF Spec

\* What a fix reports as fixed and what a setup did not skip is published, but for
\* MX records, in the answers of fix_domain_dns and cloudflare_setup, however many
\* jobs there are.
THEOREM DoneIsPublishedHolds == Spec => []DoneIsPublished
<1>1. IInv => DoneIsPublished
  <2> SUFFICES ASSUME IInv, NEW j \in Jobs, At(j, "complete"), ~disturbed
               PROVE  /\ Claims(j) \subseteq Published
                      /\ job[j].kind = "setup" => onMx
    BY DEF DoneIsPublished
  <2>1. job[j] \in Job /\ ShapeOf(job[j]) /\ Good(job[j])
    BY DEF IInv, TypeOK, Shapes, Undisturbed
  <2>2. \A t \in Types \ {"mx"} : Holds(t) => t \in Published
    BY HoldsPasses DEF IInv
  <2>3. CASE job[j].kind = "setup"
    <3>1. /\ job[j].todo = {} /\ "profile" \in job[j].data
          /\ job[j].slot = "none"
      BY <2>1, <2>3 DEF ShapeOf, At, Calling
    <3>2. onMx /\ \A t \in Due(job[j].data) \ {"none"} : Holds(t)
      BY <2>1, <2>3, <3>1 DEF Good, At
    <3>3. "none" \notin Types
      BY DEF Checks, MailChecks
    <3> QED
      BY <2>2, <2>3, <3>2, <3>3 DEF Claims, Due
  <2>4. CASE job[j].kind # "setup"
    <3>1. \A t \in job[j].done \ {"mx"} : t \in Types /\ Holds(t)
      BY <2>1 DEF Good, Job
    <3> QED
      BY <2>2, <2>4, <3>1 DEF Claims
  <2> QED
    BY <2>3, <2>4
<1> QED
  BY <1>1, InitInv, NextInv, PTL DEF Spec

\* A step of a job that touches the zone is one of four.
LEMMA WhichWrite ==
    ASSUME IInv, Next, hands' = hands
    PROVE  \/ UNCHANGED <<zone, saved>>
           \/ \E j \in Jobs :
                 \/ PutRecord(j) /\ ~UNCHANGED zone
                 \/ PostRecord(j) /\ ~UNCHANGED records
                 \/ \E i \in job[j].left :
                       \/ DropExtra(j, i) /\ ~UNCHANGED zone
                       \/ PostMx(j, i) /\ ~UNCHANGED records
<1>0. ~ByHand /\ Step
  BY DEF ByHand, IInv, TypeOK, Next
<1>1. ASSUME NEW j \in Jobs, NEW answered \in Answers,
             \/ \E order \in Orders :
                   \/ BeginFix(j, order, answered)
                   \/ \E unhealthy \in BOOLEAN :
                         FixBulk(j, order, unhealthy, answered)
             \/ StartQueued(j, answered)
      PROVE  UNCHANGED <<zone, saved>>
  BY <1>1 DEF BeginFix, FixBulk, StartQueued, records
<1>2. ASSUME NEW j \in Jobs,
             \/ BeginSetup(j) \/ EnsureZone(j) \/ ListRecords(j)
             \/ \E t \in Types : StartType(j, t)
             \/ EndOfTypes(j) \/ Register(j) \/ ReadProfile(j)
             \/ AnswerJob(j) \/ KillJob(j)
      PROVE  UNCHANGED <<zone, saved>>
  BY <1>2 DEF BeginSetup, EnsureZone, ListRecords, StartType, EndOfTypes,
     Register, ReadProfile, AnswerJob, KillJob, records
<1>3. ASSUME NEW j \in Jobs, PutRecord(j) \/ PostRecord(j)
      PROVE  UNCHANGED saved
  BY <1>3 DEF PutRecord, PostRecord
<1>4. ASSUME NEW j \in Jobs, NEW i, DropExtra(j, i) \/ PostMx(j, i)
      PROVE  UNCHANGED saved
  BY <1>4 DEF DropExtra, PostMx
<1>5. /\ ~(\E p \in Policies : SetPolicy(p)) /\ ~ClearPolicy /\ ~EditZone
      /\ ~ChangeServer /\ ~ChangeDomain
  BY <1>0 DEF SetPolicy, ClearPolicy, EditZone, ChangeServer, ChangeDomain
<1>6. Look => UNCHANGED <<zone, saved>>
  BY DEF Look, records
<1> QED
  BY <1>0, <1>1, <1>2, <1>3, <1>4, <1>5, <1>6 DEF Step, records

\* Outside a change by hand, every step of Next is steady.
LEMMA NextSteady ==
    ASSUME IInv, Next, ~disturbed, hands' = hands
    PROVE  Steady
<1>1. hands \in Nat /\ TypeOK
  BY DEF IInv, TypeOK
<1>2. CASE UNCHANGED <<zone, saved>>
  BY <1>2, SameSteady
<1>3. ASSUME NEW j \in Jobs, PutRecord(j), ~UNCHANGED zone PROVE Steady
  <2>1. /\ At(j, "put") /\ PutAccepted(j) /\ zone' = Replaced(j)
        /\ UNCHANGED <<saved, ids>>
    BY <1>3 DEF PutRecord
  <2> QED
    BY <2>1, PutSteady
<1>4. ASSUME NEW j \in Jobs, PostRecord(j), ~UNCHANGED records PROVE Steady
  <2>1. /\ At(j, "post") /\ Add(job[j].slot, job[j].want)
        /\ UNCHANGED saved
    BY <1>4 DEF PostRecord
  <2>2. /\ job[j].slot \in Types
        /\ job[j].want = Want(job[j].slot)
    BY <2>1, CallFacts DEF At, Calling
  <2> QED
    BY <1>1, <2>1, <2>2, AddSteady
<1>5. ASSUME NEW j \in Jobs, NEW i \in job[j].left, DropExtra(j, i),
             ~UNCHANGED zone
      PROVE  Steady
  <2>1. /\ At(j, "extras") /\ zone' = {r \in zone : r.id # i}
        /\ UNCHANGED saved
    BY <1>5 DEF DropExtra
  <2> QED
    BY <2>1, DropSteady
<1>6. ASSUME NEW j \in Jobs, NEW h \in job[j].left, PostMx(j, h),
             ~UNCHANGED records
      PROVE  Steady
  <2>1. Add("mx", h) /\ UNCHANGED saved /\ At(j, "mx")
    BY <1>6 DEF PostMx
  <2>2. job[j].slot = "mx" /\ job[j] \in Job
    BY <2>1 DEF At, IInv, Shapes, ShapeOf, TypeOK
  <2>3. "mx" \in Types
    BY <2>2 DEF Job
  <2> QED
    BY <1>1, <2>1, <2>3, AddSteady
<1> QED
  BY <1>2, <1>3, <1>4, <1>5, <1>6, WhichWrite

\* No step of a fix or a setup makes a check fail that passed, unless somebody
\* changed the zone, the settings or the domain since it began (cf_upsert_txt
\* rewrites the first record before it deletes the others).
THEOREM WritesKeepRightHolds == Spec => WritesKeepRight
<1>1. IInv /\ [Next]_vars =>
        [~disturbed /\ hands' = hands => Published \subseteq Published']_vars
  BY NextSteady DEF Steady
<1> QED
  BY <1>1, InitInv, NextInv, PTL DEF Spec, WritesKeepRight

\* With its lists whole, no job adds a record to a name that has one: what
\* its list lacks is, if there now, what it would post, and Cloudflare refuses
\* the same record twice (upsert's "do not blindly create duplicates").
THEOREM NoBlindDuplicatesHolds == Spec => NoBlindDuplicates
<1>1. ASSUME IInv, [Next]_vars, ~UNCHANGED vars, ~disturbed, hands' = hands,
             ~misread, NEW t \in Types \ {"mx"}, Of(zone, t) # {}
      PROVE  {r.id : r \in Of(zone', t)} \subseteq {r.id : r \in Of(zone, t)}
  <2>1. Next
    BY <1>1
  <2>2. CASE UNCHANGED zone
    BY <2>2 DEF Of
  <2>3. ASSUME NEW j \in Jobs, PutRecord(j), ~UNCHANGED zone
        PROVE  {r.id : r \in Of(zone', t)} \subseteq {r.id : r \in Of(zone, t)}
    <3>1. At(j, "put") /\ PutAccepted(j) /\ zone' = Replaced(j)
      BY <2>3 DEF PutRecord
    <3>2. \A r \in zone : r.id = job[j].id => r.slot = job[j].slot
      BY <1>1, <3>1, ListedIds DEF At
    <3> PICK n : n = [slot |-> job[j].slot, id |-> job[j].id,
                      content |-> job[j].want]
      OBVIOUS
    <3>3. /\ zone' = {r \in zone : r.id # job[j].id} \cup {n}
          /\ n.slot = job[j].slot /\ n.id = job[j].id
      BY <3>1 DEF Replaced
    <3>4. \E r \in zone : r.id = job[j].id /\ r.slot = job[j].slot
      BY <3>1, <3>2 DEF PutAccepted
    <3> QED
      BY <3>3, <3>4 DEF Of
  <2>4. ASSUME NEW j \in Jobs, PostRecord(j), ~UNCHANGED records
        PROVE  {r.id : r \in Of(zone', t)} \subseteq {r.id : r \in Of(zone, t)}
    <3>1. /\ At(j, "post") /\ Accepts(job[j].slot, job[j].want, 0)
          /\ Add(job[j].slot, job[j].want)
      BY <2>4 DEF PostRecord
    <3>2. /\ Good(job[j]) /\ ShapeOf(job[j])
          /\ job[j].slot \in Types \ {"mx"}
          /\ job[j].want = Want(job[j].slot)
      BY <1>1, <3>1, CallFacts DEF At, Calling, IInv, Undisturbed, Shapes
    <3>3. Of(zone, job[j].slot) = {}
      <4> SUFFICES ASSUME NEW r \in Of(zone, job[j].slot) PROVE FALSE
        OBVIOUS
      <4>1. Of(job[j].seen, job[j].slot) = {}
        BY <3>1, <3>2 DEF ShapeOf, At
      <4>2. r.content = job[j].want
        BY <1>1, <3>1, <3>2, <4>1 DEF Good, At, PastList, Calling
      <4>3. r.id # 0
        BY <1>1 DEF IInv, TypeOK, Of
      <4> QED
        BY <3>1, <4>2, <4>3 DEF Accepts, Identical
    <3>4. t # job[j].slot
      BY <1>1, <3>3
    <3> QED
      BY <3>1, <3>4 DEF Add, Of
  <2>5. ASSUME NEW j \in Jobs, NEW i \in job[j].left, DropExtra(j, i)
        PROVE  {r.id : r \in Of(zone', t)} \subseteq {r.id : r \in Of(zone, t)}
    <3>1. zone' \subseteq zone
      BY <2>5 DEF DropExtra
    <3> QED
      BY <3>1 DEF Of
  <2>6. ASSUME NEW j \in Jobs, NEW h \in job[j].left, PostMx(j, h),
               ~UNCHANGED zone
        PROVE  {r.id : r \in Of(zone', t)} \subseteq {r.id : r \in Of(zone, t)}
    <3>1. Add("mx", h)
      BY <2>6 DEF PostMx, records
    <3> QED
      BY <3>1 DEF Add, Of
  <2> QED
    BY <1>1, <2>1, <2>2, <2>3, <2>4, <2>5, <2>6, WhichWrite DEF records
<1>2. IInv /\ [Next]_vars =>
        [~disturbed /\ hands' = hands /\ ~misread =>
             \A t \in Types \ {"mx"} :
                 Of(zone, t) # {} =>
                     {r.id : r \in Of(zone', t)}
                     \subseteq {r.id : r \in Of(zone, t)}]_vars
  BY <1>1
<1> QED
  BY <1>2, InitInv, NextInv, PTL DEF Spec, NoBlindDuplicates

=============================================================================
