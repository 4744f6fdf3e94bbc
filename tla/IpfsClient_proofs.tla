------------------------- MODULE IpfsClient_proofs -------------------------
(***************************************************************************)
(* Proofs about IpfsClient, for any number of attempts and of chunks: the  *)
(* body of a request is written once; a downloaded file is the content     *)
(* exactly while no failed attempt left a chunk and every chunk was a text *)
(* by itself; and what a publish took for its image is its own, stored     *)
(* and, on a two-step registry, what was registered.                       *)
(*                                                                         *)
(* BodyInv and CatInv are the inductive invariants of the first two.  The  *)
(* third is PublishInv, which goes by the child that runs: what the hash   *)
(* children left (HashInv), that an upload finds none of the .ipfs files   *)
(* (FilesInv), what each upload left of its target (UploadInv), how many   *)
(* short answers it took to get there, and that what is pinned is a CID    *)
(* (PinInv), without which the types do not hold.                          *)
(***************************************************************************)
EXTENDS IpfsClient, TLAPS

BodyInv == bodies = IF bodySent THEN 1 ELSE 0

\* A clean download holds the chunks of the running cat and no other; another
\* one holds more of them, or one that is garbled.
CatInv ==
    /\ out # None => outcome # "running"
    /\ at <= Len(res)
    /\ clean => Len(res) = at /\ \A i \in 1 .. at : res[i] = i
    /\ ~clean => \/ at < Len(res)
                 \/ \E i \in 1 .. Len(res) : res[i] = Garbled
    /\ DownloadIsWhole

-----------------------------------------------------------------------------
Running == outcome = "running"

\* The child at position n of the publish has ended, and the publish went on.
Past(n) == job > n \/ outcome = "published"

\* The children that upload the compose, and those that upload the tree.
ComposeUp == \/ kind = "twoStep" /\ job = 3
             \/ kind = "v1" /\ job \in {1, 5}
TreeUp == \/ kind = "twoStep" /\ job = 4
          \/ kind = "v1" /\ job \in {2, 6}

\* What the hash children printed is registered, right or wrong, and nothing
\* is stored before the second has ended.
HashInv ==
    kind = "twoStep" =>
        /\ job <= 2 => stored = {}
        /\ job <= 3 /\ Running => env = expectedCids
        /\ job > 1 => expectedCids["compose"] \in {<<"compose", 1>>, Junk}
        /\ job > 2 => /\ expectedCids["tree"] \in {<<"tree", 1>>, Junk, PartCid}
                      /\ expectedCids["tree"] = PartCid => wrong >= 1

\* The .ipfs files are deleted before the first request of an upload.
FilesInv ==
    Running =>
        /\ ComposeUp /\ phase # "start" => files = NoCids
        /\ TreeUp => files["tree"] = None

\* The first of the uploads that count, and their pass.
First == IF kind = "v1" THEN 5 ELSE 3
LastPass == IF kind = "v1" THEN 2 ELSE 1

UploadInv ==
    kind # "download" =>
        /\ Past(First) => /\ env["compose"] = <<"compose", LastPass>>
                          /\ env["compose"] \in stored
        /\ outcome = "published" =>
              \/ env["tree"] = <<"tree", LastPass>> /\ env["tree"] \in stored
              \/ /\ env["tree"] = PartCid /\ wrong >= 1
                 /\ kind = "twoStep" /\ expectedCids["tree"] = PartCid =>
                        wrong >= 2
        /\ outcome = "published" /\ kind = "twoStep" => env = expectedCids

EnvInv == \A t \in Targets : env[t] # OldCid

\* The pins of a V1 publish have CIDs to pin.
PinInv ==
    kind = "v1" => /\ job > 1 => env["compose"] # None
                   /\ job > 2 => env["tree"] # None

PublishInv == HashInv /\ FilesInv /\ UploadInv /\ EnvInv /\ PinInv

-----------------------------------------------------------------------------
(***************************************************************************)
(* The children of a publish, by their position.                           *)
(***************************************************************************)

LEMMA BothIs ==
    ASSUME NEW a, NEW p, NEW J, Job(a, "compose", p) \in J, Job(a, "tree", p) \in J
    PROVE  /\ Both(a, p) \in Seq(J) /\ Len(Both(a, p)) = 2
           /\ Both(a, p)[1] = Job(a, "compose", p)
           /\ Both(a, p)[2] = Job(a, "tree", p)
<1>1. ASSUME NEW x \in J, NEW y \in J PROVE <<x, y>> \in Seq(J)
    OBVIOUS
<1>2. \A x, y : Len(<<x, y>>) = 2 /\ <<x, y>>[1] = x /\ <<x, y>>[2] = y
    OBVIOUS
<1> QED
    BY <1>1, <1>2 DEF Both

LEMMA Concatenated ==
    ASSUME NEW J, NEW s \in Seq(J), NEW t \in Seq(J)
    PROVE  /\ s \o t \in Seq(J) /\ Len(s \o t) = Len(s) + Len(t)
           /\ \A i \in 1 .. Len(s) : (s \o t)[i] = s[i]
           /\ \A i \in 1 .. Len(t) : (s \o t)[Len(s) + i] = t[i]
<1> QED
    OBVIOUS

LEMMA TwoPairs ==
    ASSUME NEW J, NEW r \in Seq(J), NEW s \in Seq(J)
    PROVE  Len(r) = 2 /\ Len(s) = 2 =>
               /\ r \o s \in Seq(J) /\ Len(r \o s) = 4
               /\ (r \o s)[1] = r[1] /\ (r \o s)[2] = r[2]
               /\ (r \o s)[3] = s[1] /\ (r \o s)[4] = s[2]
<1> DEFINE u == r \o s
<1>1. /\ u \in Seq(J) /\ Len(u) = Len(r) + Len(s)
      /\ \A i \in 1 .. Len(r) : u[i] = r[i]
      /\ \A i \in 1 .. Len(s) : u[Len(r) + i] = s[i]
    BY Concatenated
<1> HIDE DEF u
<1>2. Len(r) = 2 /\ Len(s) = 2 =>
          Len(u) = 4 /\ u[1] = r[1] /\ u[2] = r[2] /\ u[3] = s[1] /\ u[4] = s[2]
    BY <1>1
<1> QED
    BY <1>1, <1>2 DEF u

\* Four children, and a pair.
LEMMA PairMore ==
    ASSUME NEW J, NEW u \in Seq(J), NEW t \in Seq(J)
    PROVE  Len(u) = 4 /\ Len(t) = 2 =>
               /\ Len(u \o t) = 6
               /\ (u \o t)[1] = u[1] /\ (u \o t)[2] = u[2]
               /\ (u \o t)[3] = u[3] /\ (u \o t)[4] = u[4]
               /\ (u \o t)[5] = t[1] /\ (u \o t)[6] = t[2]
<1> DEFINE v == u \o t
<1>1. /\ v \in Seq(J) /\ Len(v) = Len(u) + Len(t)
      /\ \A i \in 1 .. Len(u) : v[i] = u[i]
      /\ \A i \in 1 .. Len(t) : v[Len(u) + i] = t[i]
    BY Concatenated
<1> HIDE DEF v
<1>2. Len(u) = 4 /\ Len(t) = 2 =>
          /\ Len(v) = 6 /\ v[1] = u[1] /\ v[2] = u[2] /\ v[3] = u[3]
          /\ v[4] = u[4] /\ v[5] = t[1] /\ v[6] = t[2]
    BY <1>1
<1> QED
    BY <1>2 DEF v

\* The children of a publish on a two-step registry, of a V1 publish and of a
\* download.
LEMMA TwoStepChildren ==
    LET s == Jobs("twoStep")
    IN  /\ Len(s) = 4
        /\ s[1] = Job("hash", "compose", 1) /\ s[2] = Job("hash", "tree", 1)
        /\ s[3] = Job("upload", "compose", 1) /\ s[4] = Job("upload", "tree", 1)
<1> DEFINE J == {Job("hash", "compose", 1), Job("hash", "tree", 1),
                 Job("upload", "compose", 1), Job("upload", "tree", 1)}
           r == Both("hash", 1)
           s == Both("upload", 1)
<1>1. /\ r \in Seq(J) /\ Len(r) = 2 /\ s \in Seq(J) /\ Len(s) = 2
      /\ r[1] = Job("hash", "compose", 1) /\ r[2] = Job("hash", "tree", 1)
      /\ s[1] = Job("upload", "compose", 1) /\ s[2] = Job("upload", "tree", 1)
    BY BothIs
<1>2. Jobs("twoStep") = r \o s
    BY DEF Jobs
<1> HIDE DEF J, r, s
<1>3. /\ Len(r \o s) = 4 /\ (r \o s)[1] = r[1] /\ (r \o s)[2] = r[2]
      /\ (r \o s)[3] = s[1] /\ (r \o s)[4] = s[2]
    BY <1>1, TwoPairs
<1> DEFINE u == r \o s
<1> HIDE DEF u
<1> QED
    BY <1>1, <1>2, <1>3 DEF u

LEMMA V1Children ==
    LET s == Jobs("v1")
    IN  /\ Len(s) = 6
        /\ s[1] = Job("upload", "compose", 1) /\ s[2] = Job("upload", "tree", 1)
        /\ s[3] = Job("pin", "compose", 1) /\ s[4] = Job("pin", "tree", 1)
        /\ s[5] = Job("upload", "compose", 2) /\ s[6] = Job("upload", "tree", 2)
<1> DEFINE J == {Job("upload", "compose", 1), Job("upload", "tree", 1),
                 Job("pin", "compose", 1), Job("pin", "tree", 1),
                 Job("upload", "compose", 2), Job("upload", "tree", 2)}
           r == Both("upload", 1)
           s == Both("pin", 1)
           t == Both("upload", 2)
<1>1. /\ r \in Seq(J) /\ Len(r) = 2
      /\ r[1] = Job("upload", "compose", 1) /\ r[2] = Job("upload", "tree", 1)
    BY BothIs
<1>2. /\ s \in Seq(J) /\ Len(s) = 2
      /\ s[1] = Job("pin", "compose", 1) /\ s[2] = Job("pin", "tree", 1)
    BY BothIs
<1>3. /\ t \in Seq(J) /\ Len(t) = 2
      /\ t[1] = Job("upload", "compose", 2) /\ t[2] = Job("upload", "tree", 2)
    BY BothIs
<1>4. Jobs("v1") = (r \o s) \o t
    BY DEF Jobs
<1> HIDE DEF J, r, s, t
<1> DEFINE u == r \o s
<1>5. /\ u \in Seq(J) /\ Len(u) = 4 /\ u[1] = r[1] /\ u[2] = r[2]
      /\ u[3] = s[1] /\ u[4] = s[2]
    BY <1>1, <1>2, TwoPairs
<1> DEFINE v == u \o t
<1>6. Jobs("v1") = v
    BY <1>4
<1> HIDE DEF u
<1>7. /\ Len(v) = 6 /\ v[1] = u[1] /\ v[2] = u[2] /\ v[3] = u[3]
      /\ v[4] = u[4] /\ v[5] = t[1] /\ v[6] = t[2]
    BY <1>3, <1>5, PairMore
<1> HIDE DEF v
<1> QED
    BY <1>1, <1>2, <1>3, <1>5, <1>6, <1>7

LEMMA DownloadChildren ==
    /\ Len(Jobs("download")) = 1
    /\ Jobs("download")[1] = Job("download", "tree", 1)
<1> QED
    BY DEF Jobs

\* The child that runs, by its position.
LEMMA ChildIs ==
    ASSUME TypeOK
    PROVE  /\ kind = "twoStep" => job \in 1 .. 4
           /\ kind = "v1" => job \in 1 .. 6
           /\ kind = "download" => job = 1
           /\ Current.action = "hash" <=> kind = "twoStep" /\ job \in {1, 2}
           /\ Current.action = "upload" <=> ComposeUp \/ TreeUp
           /\ Current.action = "pin" <=> kind = "v1" /\ job \in {3, 4}
           /\ Current.action = "download" <=> kind = "download"
           /\ Current.target = IF kind # "download" /\ job \in {1, 3, 5}
                               THEN "compose" ELSE "tree"
           /\ Current.pass = IF kind = "v1" /\ job \in {5, 6} THEN 2 ELSE 1
<1>0. kind \in {"twoStep", "v1", "download"} /\ job \in 1 .. Len(Jobs(kind))
    BY DEF TypeOK
<1>1. CASE kind = "twoStep"
  <2>1. job \in {1, 2, 3, 4} /\ Current = Jobs("twoStep")[job]
    <3>1. Len(Jobs(kind)) = 4
        BY <1>1, TwoStepChildren
    <3>2. job \in 1 .. 4
        BY <1>0, <3>1
    <3>3. Current = Jobs("twoStep")[job]
        BY <1>1 DEF Current
    <3> QED
        BY <3>2, <3>3
  <2>2. Current = Job(IF job \in {1, 2} THEN "hash" ELSE "upload",
                      IF job \in {1, 3} THEN "compose" ELSE "tree", 1)
      BY <2>1, TwoStepChildren
  <2> QED
      BY <1>1, <2>1, <2>2 DEF Job, ComposeUp, TreeUp
<1>2. CASE kind = "v1"
  <2>1. job \in {1, 2, 3, 4, 5, 6} /\ Current = Jobs("v1")[job]
    <3>1. Len(Jobs(kind)) = 6
        BY <1>2, V1Children
    <3>2. job \in 1 .. 6
        BY <1>0, <3>1
    <3>3. Current = Jobs("v1")[job]
        BY <1>2 DEF Current
    <3> QED
        BY <3>2, <3>3
  <2>2. Current = Job(IF job \in {3, 4} THEN "pin" ELSE "upload",
                      IF job \in {1, 3, 5} THEN "compose" ELSE "tree",
                      IF job \in {5, 6} THEN 2 ELSE 1)
      BY <2>1, V1Children
  <2> QED
      BY <1>2, <2>1, <2>2 DEF Job, ComposeUp, TreeUp
<1>3. CASE kind = "download"
  <2>1. job = 1 /\ Current = Jobs("download")[1]
      BY <1>0, <1>3, DownloadChildren DEF Current
  <2>2. Current = Job("download", "tree", 1)
      BY <2>1, DownloadChildren
  <2> QED
      BY <1>3, <2>1, <2>2 DEF Job, ComposeUp, TreeUp
<1> QED
    BY <1>0, <1>1, <1>2, <1>3

-----------------------------------------------------------------------------
(***************************************************************************)
(* What an add makes of its answers.                                       *)
(***************************************************************************)

LEMMA MaxOfOne == ASSUME NEW n \in Nat PROVE Max({n}) = n
<1> QED
    BY DEF Max

LEMMA LineIs == \A n, h : Line(n, h).Name = n /\ Line(n, h).Hash = h
<1> QED
    BY DEF Line

LEMMA OfOne ==
    ASSUME NEW l
    PROVE  /\ DOMAIN <<l>> = {1} /\ Len(<<l>>) = 1 /\ <<l>>[1] = l /\ <<l>> # <<>>
<1>1. DOMAIN <<l>> = 1 .. 1 /\ Len(<<l>>) = 1 /\ <<l>>[1] = l
    OBVIOUS
<1>2. Len(<<>>) = 0
    OBVIOUS
<1> QED
    BY <1>1, <1>2

LEMMA OfTwo ==
    ASSUME NEW l, NEW m
    PROVE  /\ DOMAIN <<l, m>> = {1, 2} /\ Len(<<l, m>>) = 2
           /\ <<l, m>>[1] = l /\ <<l, m>>[2] = m /\ <<l, m>> # <<>>
<1>1. DOMAIN <<l, m>> = 1 .. 2 /\ Len(<<l, m>>) = 2
      /\ <<l, m>>[1] = l /\ <<l, m>>[2] = m
    OBVIOUS
<1>2. Len(<<>>) = 0
    OBVIOUS
<1> QED
    BY <1>1, <1>2

\* The last line, and the root's, of answers of one line and of two.
LEMMA OneLine ==
    ASSUME NEW l
    PROVE  lastHash(<<l>>) = l.Hash
<1> QED
    BY OfOne DEF lastHash, Last

LEMMA RootOfOne ==
    ASSUME NEW c
    PROVE  parseRootHash(<<Line("file", c)>>) = c
<1> DEFINE l == Line("file", c)
           s == <<l>>
<1>1. l.Name = "file" /\ l.Hash = c
    BY LineIs
<1> HIDE DEF l
<1>2. DOMAIN s = {1} /\ s[1] = l /\ lastHash(s) = l.Hash
    BY OfOne, OneLine
<1> HIDE DEF s
<1>3. {i \in DOMAIN s : s[i].Name = ""} = {}
    BY <1>1, <1>2
<1>4. parseRootHash(s) = c
    BY <1>1, <1>2, <1>3 DEF parseRootHash
<1> QED
    BY <1>4 DEF s, l

LEMMA RootOfTwo ==
    ASSUME NEW b, NEW c, NEW d, NEW lines, lines = <<Line("file", b), Line(c, d)>>
    PROVE  parseRootHash(lines) = d
<1> DEFINE l == Line("file", b)
           m == Line(c, d)
           s == <<l, m>>
           roots == {i \in DOMAIN s : s[i].Name = ""}
<1>1. l.Name = "file" /\ m.Name = c /\ m.Hash = d
    BY LineIs
<1> HIDE DEF l, m
<1>2. DOMAIN s = {1, 2} /\ Len(s) = 2 /\ s # <<>> /\ s[1] = l /\ s[2] = m
    BY OfTwo
<1> HIDE DEF s
<1>3. CASE c = ""
  <2>1. roots = {2}
      BY <1>1, <1>2, <1>3
  <2> HIDE DEF roots
  <2>2. Max(roots) = 2
      BY <2>1, MaxOfOne
  <2>3. parseRootHash(s) = d
      BY <1>1, <1>2, <2>1, <2>2 DEF parseRootHash, roots
  <2> QED
      BY <2>3 DEF s, l, m
<1>4. CASE c # ""
  <2>1. roots = {}
      BY <1>1, <1>2, <1>4
  <2> HIDE DEF roots
  <2>2. parseRootHash(s) = d
      BY <1>1, <1>2, <2>1 DEF parseRootHash, lastHash, Last, roots
  <2> QED
      BY <2>2 DEF s, l, m
<1> QED
    BY <1>3, <1>4

LEMMA NoLine == parseRootHash(<<>>) = None /\ lastHash(<<>>) = None
<1>1. {i \in DOMAIN <<>> : <<>>[i].Name = ""} = {}
    OBVIOUS
<1> QED
    BY <1>1 DEF parseRootHash, lastHash

LEMMA CidIs ==
    ASSUME TypeOK
    PROVE  /\ Current.target \in Targets /\ Cid \in Cids
           /\ Cid = <<Current.target, Current.pass>> /\ Cid[1] = Current.target
<1>1. Current.target \in Targets /\ Current.pass \in {1, 2}
    BY ChildIs DEF Targets
<1> QED
    BY <1>1 DEF Cid, Cids

\* A completed add gives the CID of what was added (ipfs.mjs:202-205, 254).
LEMMA FullGives ==
    ASSUME TypeOK, NEW lines \in FullAnswers(Cid)
    PROVE  HashOf(lines) = Cid
<1>1. Cid[1] = Current.target /\ Current.target \in {"compose", "tree"}
    BY CidIs DEF Targets
<1>2. CASE Current.target = "compose"
  <2>1. lines = <<Line("compose", Cid)>>
      BY <1>1, <1>2 DEF FullAnswers
  <2> QED
      BY <1>2, <2>1, OneLine DEF HashOf, Line
<1>3. CASE Current.target = "tree"
  <2>1. \/ lines = <<Line("file", PartCid), Line("", Cid)>>
        \/ lines = <<Line("file", PartCid), Line("registry", Cid)>>
      BY <1>1, <1>3 DEF FullAnswers
  <2>2. \E c : lines = <<Line("file", PartCid), Line(c, Cid)>>
      BY <2>1
  <2>3. parseRootHash(lines) = Cid
      BY <2>2, RootOfTwo
  <2> QED
      BY <1>3, <2>3 DEF HashOf
<1> QED
    BY <1>1, <1>2, <1>3

\* One cut short gives none, or a file of the tree's.
LEMMA ShortGives ==
    ASSUME TypeOK, NEW lines \in CutAnswers(Cid), HashOf(lines) # None
    PROVE  HashOf(lines) = PartCid /\ Current.target = "tree"
<1>1. Cid[1] = Current.target /\ Current.target \in {"compose", "tree"}
    BY CidIs DEF Targets
<1>2. CASE lines = <<>>
    BY <1>2, NoLine DEF HashOf
<1>3. CASE lines # <<>>
  <2>1. Current.target = "tree" /\ lines = <<Line("file", PartCid)>>
      BY <1>1, <1>3 DEF CutAnswers
  <2>2. parseRootHash(lines) = PartCid
      BY <2>1, RootOfOne
  <2> QED
      BY <2>1, <2>2 DEF HashOf
<1> QED
    BY <1>2, <1>3

-----------------------------------------------------------------------------
(***************************************************************************)
(* Types.                                                                  *)
(***************************************************************************)

\* What a child leaves of the state of a request, when it ends.
LEMMA GoOnTypes ==
    ASSUME TypeOK, GoOn
    PROVE  /\ kind' = kind /\ job' \in 1 .. Len(Jobs(kind))
           /\ outcome' \in {"running", "published", "failed"}
           /\ outcome' = "published" \/ outcome' = outcome
           /\ phase' = "start" /\ attempt' = 0 /\ hundred' = FALSE
           /\ timer' = FALSE /\ bodySent' = FALSE /\ bodies' = 0
<1>1. Len(Jobs(kind)) \in Nat
    BY TwoStepChildren, V1Children, DownloadChildren DEF TypeOK
<1> QED
    BY <1>1 DEF TypeOK, GoOn, Fresh

\* What a step makes of the child, of run.js and of the request has its type.
CidMap == [Targets -> Cids \cup {None}]

ChildTypes ==
    /\ kind' = kind /\ job' \in 1 .. Len(Jobs(kind))
    /\ outcome' \in {"running", "published", "failed"}
    /\ phase' \in {"start", "open", "backoff"}
    /\ \/ attempt' = 0
       \/ attempt' = attempt
       \/ /\ attempt' = attempt + 1
          /\ attempt + 1 < IF kind = "download" THEN maxRetries ELSE RETRY_COUNT
    /\ hundred' \in BOOLEAN /\ timer' \in BOOLEAN /\ bodySent' \in BOOLEAN
    /\ bodies' \in Nat

RunTypes == env' \in CidMap /\ expectedCids' \in CidMap /\ files' \in CidMap

LEMMA TypesFollow ==
    ASSUME TypeOK, ChildTypes, RunTypes,
           res' \in Seq(0 .. Chunks), at' \in 0 .. Chunks,
           out' \in Seq(0 .. Chunks) \cup {None}, clean' \in BOOLEAN,
           stored' \subseteq Cids, pinned' \subseteq Cids, wrong' \in 0 .. 2
    PROVE  TypeOK'
<1>1. /\ attempt' \in Nat
      /\ attempt' < IF kind' = "download" THEN maxRetries ELSE RETRY_COUNT
  <2>1. /\ RETRY_COUNT \in Nat /\ 0 < RETRY_COUNT
        /\ maxRetries \in Nat /\ 0 < maxRetries
      BY IpfsAssumption DEF IpfsAssumption
  <2>2. /\ attempt \in Nat
        /\ attempt < IF kind = "download" THEN maxRetries ELSE RETRY_COUNT
      BY DEF TypeOK
  <2>3. /\ kind' = kind
        /\ \/ attempt' = 0
           \/ attempt' = attempt
           \/ /\ attempt' = attempt + 1
              /\ attempt + 1 < IF kind = "download" THEN maxRetries ELSE RETRY_COUNT
      BY DEF ChildTypes
  <2> QED
      BY <2>1, <2>2, <2>3
<1>2. job' \in 1 .. Len(Jobs(kind'))
    BY DEF ChildTypes
<1>3. kind' \in {"twoStep", "v1", "download"}
    BY DEF TypeOK, ChildTypes
<1> QED
    BY <1>1, <1>2, <1>3 DEF TypeOK, ChildTypes, RunTypes, CidMap

LEMMA FailsTypes ==
    ASSUME TypeOK, Adding, AttemptFails
    PROVE  /\ ChildTypes /\ RunTypes /\ UNCHANGED <<job, runVars>>
           /\ outcome' \in {outcome, "failed"}
           /\ outcome' = "running" => phase' = "backoff"
<1>1. kind # "download"
    BY ChildIs DEF Adding
<1>2. UNCHANGED <<kind, job, runVars>>
    BY DEF AttemptFails, ExitOne
<1>3. RunTypes
    BY <1>2 DEF runVars, RunTypes, TypeOK, CidMap
<1>4. CASE attempt + 1 < RETRY_COUNT
  <2>1. /\ phase' = "backoff" /\ attempt' = attempt + 1 /\ outcome' = outcome
        /\ hundred' = FALSE /\ timer' = FALSE
        /\ bodySent' = bodySent /\ bodies' = bodies
      BY <1>4 DEF AttemptFails
  <2>2. ChildTypes
      BY <1>1, <1>2, <1>4, <2>1 DEF TypeOK, ChildTypes
  <2> QED
      BY <1>2, <1>3, <2>1, <2>2
<1>5. CASE ~(attempt + 1 < RETRY_COUNT)
  <2>1. /\ outcome' = "failed" /\ phase' = "start" /\ attempt' = 0
        /\ hundred' = FALSE /\ timer' = FALSE
        /\ bodySent' = FALSE /\ bodies' = 0
      BY <1>5 DEF AttemptFails, ExitOne, Fresh
  <2>2. ChildTypes
      BY <1>2, <2>1 DEF TypeOK, ChildTypes
  <2> QED
      BY <1>2, <1>3, <2>1, <2>2
<1> QED
    BY <1>4, <1>5

LEMMA HashTypes ==
    ASSUME TypeOK, Adding, NEW line \in Cids, HashPrinted(line)
    PROVE  /\ ChildTypes /\ RunTypes /\ files' = files
           /\ env' = [env EXCEPT ![Current.target] = line]
           /\ expectedCids' = env' /\ GoOn
<1>1. ChildTypes
    BY GoOnTypes DEF HashPrinted, ChildTypes
<1>2. env' \in CidMap
    BY CidIs DEF HashPrinted, TypeOK, CidMap
<1> QED
    BY <1>1, <1>2 DEF HashPrinted, RunTypes, TypeOK, CidMap

LEMMA UploadTypes ==
    ASSUME TypeOK, Adding, files' \in CidMap, UploadDone
    PROVE  /\ ChildTypes /\ RunTypes /\ expectedCids' = expectedCids
           /\ files'[Current.target] = None => env' = env
           /\ files'[Current.target] # None =>
                  env' = [env EXCEPT ![Current.target] = files'[Current.target]]
           /\ \/ outcome' = "failed" /\ job' = job
              \/ /\ files'[Current.target] # None /\ ~OtherThanRegistered
                 /\ GoOn
<1>1. ChildTypes /\ (\/ outcome' = "failed" /\ job' = job
                     \/ /\ files'[Current.target] # None
                        /\ ~OtherThanRegistered /\ GoOn)
  <2>1. CASE files'[Current.target] = None \/ OtherThanRegistered
    <3>1. /\ outcome' = "failed" /\ UNCHANGED <<kind, job>> /\ Fresh
        BY <2>1 DEF UploadDone
    <3>2. ChildTypes
        BY <3>1 DEF Fresh, ChildTypes, TypeOK
    <3> QED
        BY <3>1, <3>2
  <2>2. CASE ~(files'[Current.target] = None \/ OtherThanRegistered)
    <3>1. GoOn
        BY <2>2 DEF UploadDone
    <3>2. ChildTypes
        BY <3>1, GoOnTypes DEF ChildTypes
    <3> QED
        BY <2>2, <3>1, <3>2
  <2> QED
      BY <2>1, <2>2
<1>2. env' \in CidMap /\ expectedCids' \in CidMap
  <2>1. files'[Current.target] \in Cids \cup {None}
      BY CidIs DEF CidMap
  <2> QED
      BY <2>1 DEF UploadDone, TypeOK, CidMap
<1> QED
  <2>1. /\ expectedCids' = expectedCids
        /\ files'[Current.target] = None => env' = env
        /\ files'[Current.target] # None =>
               env' = [env EXCEPT ![Current.target] = files'[Current.target]]
      BY DEF UploadDone
  <2> QED
      BY <1>1, <1>2, <2>1 DEF RunTypes

\* What the steps of an add leave of the rest.
LEMMA AnswersTypes ==
    ASSUME TypeOK, Adding, phase = "open", bodySent,
           Answered \/ AnsweredShort \/ AnswerBreaksOff
    PROVE  /\ ChildTypes /\ RunTypes /\ UNCHANGED <<catVars, pinned>>
           /\ stored' \subseteq Cids /\ wrong' \in 0 .. 2
<1>1. Cid \in Cids /\ {PartCid, Junk} \subseteq Cids
      /\ Current.target \in Targets
    BY CidIs DEF Cids
<1>2. \A hash \in Cids : AttemptGives(hash) => ChildTypes /\ RunTypes
  <2> SUFFICES ASSUME NEW hash \in Cids, AttemptGives(hash)
               PROVE  ChildTypes /\ RunTypes
      OBVIOUS
  <2>1. CASE onlyHash
      BY <2>1, HashTypes DEF AttemptGives
  <2>2. CASE ~onlyHash
    <3>1. files' \in CidMap /\ UploadDone
        BY <1>1, <2>2 DEF AttemptGives, TypeOK, CidMap
    <3> QED
        BY <3>1, UploadTypes
  <2> QED
      BY <2>1, <2>2
<1>3. stored' \in {stored, stored \cup {Cid}}
    BY DEF Answered, AnsweredShort, AnswerBreaksOff, Adds
<1>4. UNCHANGED <<catVars, pinned>>
    BY DEF Answered, AnsweredShort, AnswerBreaksOff
<1>5. wrong' \in 0 .. 2
    BY DEF Answered, AnsweredShort, AnswerBreaksOff, TypeOK
<1>6. ChildTypes /\ RunTypes
  <2>1. CASE Answered
    <3>1. PICK lines \in FullAnswers(Cid) : AttemptGives(HashOf(lines))
        BY <2>1 DEF Answered
    <3> QED
        BY <1>1, <1>2, <3>1, FullGives
  <2>2. CASE AnsweredShort
    <3>1. PICK lines \in CutAnswers(Cid) :
             IF HashOf(lines) = None THEN AttemptFails
             ELSE AttemptGives(HashOf(lines))
        BY <2>2 DEF AnsweredShort
    <3>2. CASE HashOf(lines) = None
        BY <3>1, <3>2, FailsTypes
    <3>3. CASE HashOf(lines) # None
      <4>1. HashOf(lines) = PartCid
          BY <3>3, ShortGives
      <4> QED
          BY <1>1, <1>2, <3>1, <3>3, <4>1
    <3> QED
        BY <3>2, <3>3
  <2>3. CASE AnswerBreaksOff
    <3>1. CASE onlyHash
        BY <1>1, <2>3, <3>1, HashTypes DEF AnswerBreaksOff
    <3>2. CASE ~onlyHash
      <4>1. files' \in CidMap /\ UploadDone
          BY <2>3, <3>2 DEF AnswerBreaksOff, TypeOK, CidMap
      <4> QED
          BY <4>1, UploadTypes
    <3> QED
        BY <3>1, <3>2
  <2> QED
      BY <2>1, <2>2, <2>3
<1> QED
    BY <1>1, <1>3, <1>4, <1>5, <1>6 DEF TypeOK

LEMMA TypesStay ==
    ASSUME TypeOK, PinInv, [Next]_vars PROVE TypeOK'
<1>1. /\ res \in Seq(0 .. Chunks) /\ at \in 0 .. Chunks
      /\ out \in Seq(0 .. Chunks) \cup {None} /\ clean \in BOOLEAN
      /\ stored \subseteq Cids /\ pinned \subseteq Cids /\ wrong \in 0 .. 2
      /\ env \in CidMap /\ expectedCids \in CidMap /\ files \in CidMap
    BY DEF TypeOK, CidMap
<1>2. CASE Start \/ Retry
  <2>1. Open /\ files' \in {NoCids, files} /\ NoCids \in CidMap
      BY <1>2 DEF Start, Retry, NoCids, CidMap
  <2>2. ChildTypes
      BY <2>1 DEF Open, ChildTypes, TypeOK
  <2> QED
      BY <1>1, <2>1, <2>2, TypesFollow
      DEF Open, RunTypes, catVars, apiVars
<1>3. CASE Continue \/ Fallback
  <2>1. sendBody /\ hundred' \in BOOLEAN /\ timer' \in BOOLEAN
      BY <1>3 DEF Continue, Fallback, TypeOK
  <2>2. bodies' \in Nat
      BY <2>1 DEF sendBody, TypeOK
  <2>3. ChildTypes
      BY <2>1, <2>2 DEF sendBody, ChildTypes, TypeOK
  <2> QED
      BY <1>1, <2>1, <2>3, TypesFollow
      DEF sendBody, RunTypes, runVars, catVars, apiVars
<1>4. CASE Answered \/ AnsweredShort \/ AnswerBreaksOff
  <2>1. Adding /\ phase = "open" /\ bodySent
      BY <1>4 DEF Answered, AnsweredShort, AnswerBreaksOff
  <2> QED
      BY <1>1, <1>4, <2>1, AnswersTypes, TypesFollow DEF catVars
<1>5. CASE AddFails
  <2>1. ChildTypes /\ RunTypes
      BY <1>5, FailsTypes DEF AddFails
  <2>2. stored' \subseteq Cids /\ UNCHANGED <<catVars, pinned, wrong>>
      BY <1>1, <1>5, CidIs DEF AddFails, Adds
  <2> QED
      BY <1>1, <2>1, <2>2, TypesFollow DEF catVars
<1>6. CASE Pin \/ PinFails
  <2>1. env[Current.target] \in Cids
    <3>1. kind = "v1" /\ job \in {3, 4} /\ Current.target \in Targets
        BY <1>6, ChildIs, CidIs DEF Pin, PinFails, Doing
    <3>2. env[Current.target] # None
        BY <3>1 DEF PinInv, Targets
    <3> QED
        BY <1>1, <3>1, <3>2 DEF CidMap
  <2>2. /\ pinned' \in {pinned, pinned \cup {env[Current.target]}}
        /\ UNCHANGED <<runVars, catVars, stored, wrong>>
      BY <1>6 DEF Pin, PinFails, ExitOne
  <2>3. ChildTypes
    <3>1. CASE Pin
        BY <3>1, GoOnTypes DEF Pin, ChildTypes
    <3>2. CASE PinFails
        BY <3>2 DEF PinFails, ExitOne, Fresh, ChildTypes, TypeOK
    <3> QED
        BY <1>6, <3>1, <3>2
  <2>4. RunTypes
      BY <1>1, <2>2 DEF RunTypes, runVars
  <2> QED
      BY <1>1, <2>1, <2>2, <2>3, <2>4, TypesFollow DEF catVars
<1>7. CASE Chunk
  <2>0. PICK text \in {at + 1, 0} : /\ res' = Append(res, text)
                                   /\ clean' = (clean /\ text # 0)
      BY <1>7 DEF Chunk, decode, Garbled
  <2>1. /\ at' \in 0 .. Chunks /\ res' \in Seq(0 .. Chunks)
        /\ clean' \in BOOLEAN
    <3>1. at' = at + 1 /\ at < Chunks /\ Chunks \in Nat
        BY <1>7, IpfsAssumption DEF Chunk, IpfsAssumption
    <3>2. text \in 0 .. Chunks
        BY <1>1, <2>0, <3>1
    <3> QED
        BY <1>1, <2>0, <3>1, <3>2
  <2>2. ChildTypes /\ RunTypes
      BY <1>1, <1>7
      DEF Chunk, ChildTypes, RunTypes, requestVars, runVars, TypeOK
  <2> QED
      BY <1>1, <1>7, <2>1, <2>2, TypesFollow DEF Chunk, apiVars
<1>8. CASE CatEnds
  <2>1. ChildTypes /\ RunTypes
      BY <1>1, <1>8, GoOnTypes DEF CatEnds, ChildTypes, RunTypes, runVars
  <2> QED
      BY <1>1, <1>8, <2>1, TypesFollow DEF CatEnds, apiVars
<1>9. CASE CatFails
  <2>1. /\ UNCHANGED <<kind, job, runVars, res, out, apiVars>>
        /\ at' \in {0, at} /\ clean' \in BOOLEAN
      BY <1>1, <1>9 DEF CatFails, ExitOne
  <2>2. ChildTypes
    <3>1. CASE attempt + 1 < maxRetries
      <4>1. kind = "download"
          BY <1>9, ChildIs DEF CatFails, Doing
      <4>2. /\ attempt' = attempt + 1
            /\ UNCHANGED <<kind, job, outcome, phase, hundred, timer, bodySent,
                           bodies>>
          BY <1>9, <3>1 DEF CatFails
      <4> QED
          BY <3>1, <4>1, <4>2 DEF ChildTypes, TypeOK
    <3>2. CASE ~(attempt + 1 < maxRetries)
      <4>1. /\ outcome' = "failed" /\ UNCHANGED <<kind, job>> /\ Fresh
          BY <1>9, <3>2 DEF CatFails, ExitOne
      <4> QED
          BY <4>1 DEF Fresh, ChildTypes, TypeOK
    <3> QED
        BY <3>1, <3>2
  <2>3. RunTypes /\ at' \in 0 .. Chunks
      BY <1>1, <2>1, IpfsAssumption DEF RunTypes, runVars, IpfsAssumption
  <2> QED
      BY <1>1, <2>1, <2>2, <2>3, TypesFollow DEF apiVars
<1>10. CASE UNCHANGED vars
  <2>1. ChildTypes /\ RunTypes
      BY <1>1, <1>10
      DEF vars, requestVars, runVars, ChildTypes, RunTypes, TypeOK
  <2> QED
      BY <1>1, <1>10, <2>1, TypesFollow DEF vars, catVars, apiVars
<1> QED
    BY <1>2, <1>3, <1>4, <1>5, <1>6, <1>7, <1>8, <1>9, <1>10
    DEF Next, Child, Api, Add, Over

-----------------------------------------------------------------------------
(***************************************************************************)
(* The body of a request.                                                  *)
(***************************************************************************)
LEMMA BodyStays ==
    ASSUME BodyInv, [Next]_vars PROVE BodyInv'
<1>1. CASE Start \/ Retry
    BY <1>1 DEF Start, Retry, Open, BodyInv
<1>2. CASE Continue \/ Fallback
    BY <1>2 DEF Continue, Fallback, sendBody, BodyInv
<1>3. ASSUME \/ ExitOne \/ GoOn \/ AttemptFails \/ UploadDone
             \/ \E line : HashPrinted(line)
             \/ \E hash : AttemptGives(hash)
      PROVE  BodyInv'
  <2>1. UploadDone \/ HashPrinted(Junk) => Fresh
      BY DEF UploadDone, HashPrinted, GoOn
  <2>2. ExitOne \/ GoOn \/ (\E line : HashPrinted(line)) => Fresh
      BY DEF ExitOne, HashPrinted, GoOn
  <2>3. (\E hash : AttemptGives(hash)) => Fresh
      BY <2>1, <2>2 DEF AttemptGives
  <2>4. AttemptFails => Fresh \/ UNCHANGED <<bodySent, bodies>>
      BY <2>2 DEF AttemptFails
  <2>5. Fresh => BodyInv'
      BY DEF Fresh, BodyInv
  <2> QED
      BY <1>3, <2>1, <2>2, <2>3, <2>4, <2>5 DEF BodyInv
<1>4. CASE Answered \/ AnsweredShort \/ AnswerBreaksOff
  <2>1. CASE Answered
      BY <1>3, <2>1 DEF Answered
  <2>2. CASE AnsweredShort
      BY <1>3, <2>2 DEF AnsweredShort
  <2>3. CASE AnswerBreaksOff
      BY <1>3, <2>3 DEF AnswerBreaksOff
  <2> QED
      BY <1>4, <2>1, <2>2, <2>3
<1>5. CASE AddFails \/ Pin \/ PinFails \/ CatEnds
    BY <1>3, <1>5 DEF AddFails, Pin, PinFails, CatEnds
<1>6. CASE Chunk \/ CatFails \/ UNCHANGED vars
  <2>1. ExitOne \/ UNCHANGED <<bodySent, bodies>>
      BY <1>6 DEF Chunk, CatFails, requestVars, vars
  <2> QED
      BY <1>3, <2>1 DEF BodyInv
<1> QED
    BY <1>1, <1>2, <1>4, <1>5, <1>6 DEF Next, Child, Api, Add, Over

\* The body of a request is written once, for any number of attempts, whether
\* the continue or the timer comes first (ipfs.mjs:150-184).
THEOREM BodyIsWrittenOnce == Spec => []BodyOnce
<1>1. Init => BodyInv
    BY DEF Init, BodyInv
<1>2. BodyInv => BodyOnce
    BY DEF BodyInv, BodyOnce
<1> QED
    BY <1>1, <1>2, BodyStays, PTL DEF Spec

-----------------------------------------------------------------------------
(***************************************************************************)
(* The publish, child by child.                                            *)
(***************************************************************************)
LEMMA Distinct ==
    /\ None \notin Cids /\ Targets = {"compose", "tree"}
    /\ PartCid # OldCid /\ Junk # OldCid /\ PartCid # Junk
    /\ {PartCid, Junk, OldCid} \subseteq Cids
    /\ \A t \in Targets, n \in {1, 2} :
          /\ <<t, n>> \in Cids
          /\ <<t, n>> # PartCid /\ <<t, n>> # Junk /\ <<t, n>> # OldCid
<1>1. "compose" # "part" /\ "compose" # "junk" /\ "compose" # "old"
      /\ "tree" # "part" /\ "tree" # "junk" /\ "tree" # "old"
      /\ "part" # "junk" /\ "part" # "old" /\ "junk" # "old"
    OBVIOUS
<1>2. None \notin Cids
    BY IpfsAssumption DEF IpfsAssumption
<1>3. PartCid # OldCid /\ Junk # OldCid /\ PartCid # Junk
    BY DEF PartCid, OldCid, Junk
<1>4. \A t \in Targets, n \in {1, 2} :
          <<t, n>> # PartCid /\ <<t, n>> # Junk /\ <<t, n>> # OldCid
    BY <1>1 DEF PartCid, OldCid, Junk, Targets
<1> QED
    BY <1>2, <1>3, <1>4 DEF Cids, Targets

\* A step within a child, or one that ends the publish by an exit.
LEMMA PublishKept ==
    ASSUME TypeOK, PublishInv,
           UNCHANGED <<kind, job, runVars, wrong>>, stored \subseteq stored',
           kind = "twoStep" /\ job <= 2 => stored' = stored,
           \/ outcome' = "failed"
           \/ outcome' = outcome /\ (phase' # "start" => phase # "start")
    PROVE  PublishInv'
<1>1. UNCHANGED <<kind, job, env, expectedCids, files, wrong>>
    BY DEF runVars
<1>2. HashInv' /\ EnvInv' /\ PinInv'
    BY <1>1 DEF PublishInv, HashInv, EnvInv, PinInv, Running
<1>3. FilesInv'
    BY <1>1 DEF PublishInv, FilesInv, ComposeUp, TreeUp, Running
<1>4. UploadInv'
    BY <1>1 DEF PublishInv, UploadInv, First, LastPass, Past
<1> QED
    BY <1>2, <1>3, <1>4 DEF PublishInv

LEMMA StartKeeps ==
    ASSUME TypeOK, PublishInv, Start PROVE PublishInv'
<1>1. /\ UNCHANGED <<kind, job, outcome, env, expectedCids, stored, wrong>>
      /\ files' \in {NoCids, files}
    BY DEF Start, Open, apiVars
<1>2. ComposeUp => files' = NoCids
    BY ChildIs DEF Start, Doing, Adding, ComposeUp
<1>3. HashInv' /\ EnvInv' /\ PinInv'
    BY <1>1 DEF PublishInv, HashInv, EnvInv, PinInv, Running
<1>4. FilesInv'
    BY <1>1, <1>2
    DEF PublishInv, FilesInv, ComposeUp, TreeUp, Running, NoCids, Targets
<1>5. UploadInv'
    BY <1>1 DEF PublishInv, UploadInv, First, LastPass, Past
<1> QED
    BY <1>3, <1>4, <1>5 DEF PublishInv

\* A hash child registers what it printed last.
LEMMA HashKeeps ==
    ASSUME TypeOK, PublishInv, Adding, onlyHash, NEW line, HashPrinted(line),
           stored' = stored, wrong' >= wrong, wrong' \in Nat,
           \/ line \in {Cid, Junk}
           \/ line = PartCid /\ Current.target = "tree" /\ wrong' >= 1
    PROVE  PublishInv'
<1>1. /\ kind = "twoStep" /\ job \in {1, 2} /\ Current.target \in Targets
      /\ Current.target = IF job = 1 THEN "compose" ELSE "tree"
      /\ Cid = <<Current.target, 1>> /\ outcome = "running" /\ Cid \in Cids
    BY ChildIs, CidIs DEF onlyHash, Adding
<1>2. Len(Jobs(kind)) = 4
    BY <1>1, TwoStepChildren
<1>3. /\ kind' = kind /\ job' = job + 1 /\ outcome' = "running"
      /\ phase' = "start" /\ files' = files
      /\ env' = [env EXCEPT ![Current.target] = line] /\ expectedCids' = env'
  <2>1. /\ GoOn /\ files' = files /\ expectedCids' = env'
        /\ env' = [env EXCEPT ![Current.target] = line]
      BY DEF HashPrinted
  <2>2. job # 4
      BY <1>1
  <2>3. job # Len(Jobs(kind))
      BY <1>2, <2>2
  <2> QED
      BY <1>1, <2>1, <2>3 DEF GoOn, Fresh
<1>4. line \in Cids /\ line # OldCid
    BY <1>1, Distinct
<1>5. /\ job = 1 => line \in {<<"compose", 1>>, Junk}
      /\ job = 2 => /\ line \in {<<"tree", 1>>, Junk, PartCid}
                    /\ line = PartCid => wrong' >= 1
    BY <1>1, Distinct
<1>6. \A t \in Targets : env'[t] = IF t = Current.target THEN line ELSE env[t]
    BY <1>3 DEF TypeOK
<1>7. /\ stored = {} /\ env = expectedCids
      /\ job = 2 => env["compose"] \in {<<"compose", 1>>, Junk}
    BY <1>1 DEF PublishInv, HashInv, Running
<1>8. HashInv'
    BY <1>1, <1>3, <1>5, <1>6, <1>7 DEF HashInv, Targets
<1>9. EnvInv' /\ PinInv' /\ FilesInv' /\ UploadInv'
    BY <1>1, <1>3, <1>4, <1>6
    DEF PublishInv, EnvInv, PinInv, FilesInv, ComposeUp, TreeUp, UploadInv,
        First, Past
<1> QED
    BY <1>8, <1>9 DEF PublishInv

\* What an upload leaves of its target, and how the publish goes on.
LEMMA UploadKeeps ==
    ASSUME TypeOK, PublishInv, Adding, ~onlyHash, phase = "open", UploadDone,
           NEW found, files' = [files EXCEPT ![Current.target] = found],
           stored \subseteq stored',
           \/ found = None /\ wrong' \in Nat /\ wrong' >= wrong
           \/ found = Cid /\ Cid \in stored' /\ wrong' = wrong
           \/ /\ found = PartCid /\ Current.target = "tree"
              /\ wrong' = IF wrong < 2 THEN wrong + 1 ELSE 2
    PROVE  PublishInv'
<1> DEFINE T == Current.target
<1>1. /\ outcome = "running" /\ T \in Targets /\ kind # "download"
      /\ Cid = <<T, Current.pass>> /\ Cid \in Cids /\ wrong \in 0 .. 2
      /\ \/ kind = "twoStep" /\ job = 3 /\ T = "compose" /\ Current.pass = 1
         \/ kind = "twoStep" /\ job = 4 /\ T = "tree" /\ Current.pass = 1
         \/ kind = "v1" /\ job = 1 /\ T = "compose" /\ Current.pass = 1
         \/ kind = "v1" /\ job = 2 /\ T = "tree" /\ Current.pass = 1
         \/ kind = "v1" /\ job = 5 /\ T = "compose" /\ Current.pass = 2
         \/ kind = "v1" /\ job = 6 /\ T = "tree" /\ Current.pass = 2
  <2>1. ComposeUp \/ TreeUp
      BY ChildIs DEF Adding, onlyHash
  <2>2. outcome = "running" /\ wrong \in 0 .. 2
      BY DEF Adding, TypeOK
  <2>3. T \in Targets /\ Cid = <<T, Current.pass>> /\ Cid \in Cids
      BY CidIs
  <2>4. /\ T = IF kind # "download" /\ job \in {1, 3, 5} THEN "compose" ELSE "tree"
        /\ Current.pass = IF kind = "v1" /\ job \in {5, 6} THEN 2 ELSE 1
      BY ChildIs
  <2> HIDE DEF T
  <2> QED
      BY <2>1, <2>2, <2>3, <2>4 DEF ComposeUp, TreeUp
<1> HIDE DEF T
<1>2. kind' = kind /\ expectedCids' = expectedCids
    BY DEF UploadDone, GoOn
<1>3. \A t \in Targets : files'[t] = IF t = T THEN found ELSE files[t]
    BY <1>1 DEF T, TypeOK
<1>4. /\ \A t \in Targets :
            env'[t] = IF t = T /\ found # None THEN found ELSE env[t]
      /\ \/ outcome' = "failed" /\ job' = job
         \/ found # None /\ ~OtherThanRegistered /\ GoOn
  <2>1. files' \in CidMap
      BY <1>1, Distinct DEF TypeOK, CidMap
  <2>2. files'[T] = found
      BY <1>1, <1>3
  <2>3. /\ found = None => env' = env
        /\ found # None => env' = [env EXCEPT ![T] = found]
        /\ \/ outcome' = "failed" /\ job' = job
           \/ found # None /\ ~OtherThanRegistered /\ GoOn
      BY <2>1, <2>2, UploadTypes DEF T
  <2> HIDE DEF OtherThanRegistered, GoOn
  <2>4. \A t \in Targets :
            env'[t] = IF t = T /\ found # None THEN found ELSE env[t]
      BY <1>1, <2>3 DEF TypeOK
  <2> QED
      BY <2>3, <2>4
<1>5. found # OldCid \/ found = None
    BY <1>1, Distinct
<1>6. EnvInv'
    BY <1>4, <1>5 DEF PublishInv, EnvInv
<1>7. CASE outcome' = "failed" /\ job' = job
  <2>1. HashInv'
      BY <1>1, <1>2, <1>7 DEF PublishInv, HashInv, Running
  <2>2. FilesInv'
      BY <1>7 DEF FilesInv, Running
  <2>3. PinInv'
      BY <1>2, <1>4, <1>7 DEF PublishInv, PinInv, Targets
  <2>4. UploadInv'
      BY <1>1, <1>2, <1>4, <1>7
      DEF PublishInv, UploadInv, Past, First, LastPass, Targets
  <2> QED
      BY <1>6, <2>1, <2>2, <2>3, <2>4 DEF PublishInv
<1>8. CASE found # None /\ ~OtherThanRegistered /\ GoOn
  <2>1. Len(Jobs(kind)) = IF kind = "v1" THEN 6 ELSE 4
      BY <1>1, TwoStepChildren, V1Children
  <2>2. /\ phase' = "start"
        /\ IF job = (IF kind = "v1" THEN 6 ELSE 4)
           THEN outcome' = "published" /\ job' = job
           ELSE job' = job + 1 /\ outcome' = "running"
      BY <1>1, <1>8, <2>1 DEF GoOn, Fresh
  <2>3. /\ \A t \in Targets : env'[t] = IF t = T THEN found ELSE env[t]
        /\ T = "compose" => found = Cid /\ Cid \in stored'
        /\ found = Cid => Cid \in stored'
        /\ found \in {Cid, PartCid} /\ Cid # PartCid
        /\ found = PartCid => /\ wrong' >= 1 /\ wrong' >= wrong
                              /\ wrong >= 1 => wrong' >= 2
        /\ wrong' >= wrong /\ wrong' \in Nat
    <3>1. /\ \A t \in Targets : env'[t] = IF t = T THEN found ELSE env[t]
          /\ T = "compose" => T # "tree"
        BY <1>4, <1>8
    <3>2. Cid # PartCid
        BY <1>1, Distinct
    <3>3. \/ found = Cid /\ Cid \in stored' /\ wrong' = wrong
          \/ /\ found = PartCid /\ T = "tree"
             /\ wrong' = IF wrong < 2 THEN wrong + 1 ELSE 2
        BY <1>8 DEF T
    <3>4. wrong \in 0 .. 2
        BY <1>1
    <3> QED
        BY <3>1, <3>2, <3>3, <3>4
  <2>4. HashInv'
      BY <1>1, <1>2, <2>2, <2>3 DEF PublishInv, HashInv, Running
  <2>5. FilesInv'
    <3>1. T = "compose" => files = NoCids
        BY <1>1 DEF PublishInv, FilesInv, ComposeUp, TreeUp, Running
    <3>2. T = "compose" => files'["tree"] = None
        BY <1>3, <3>1 DEF NoCids, Targets
    <3> QED
        BY <1>1, <1>2, <2>2, <3>2 DEF FilesInv, ComposeUp, TreeUp, Running
  <2>6. PinInv'
      BY <1>1, <1>2, <1>8, <2>2, <2>3 DEF PublishInv, PinInv, Targets
  <2>7. UploadInv'
    <3>1. kind' = "twoStep" /\ outcome' = "published" => env' = expectedCids'
        BY <1>1, <1>2, <1>8, <2>2 DEF OtherThanRegistered, T
    <3>2. Past(First)' => /\ env'["compose"] = <<"compose", LastPass'>>
                          /\ env'["compose"] \in stored'
        BY <1>1, <1>2, <2>2, <2>3
        DEF PublishInv, UploadInv, Past, First, LastPass, Targets
    <3>3. outcome' = "published" =>
              \/ env'["tree"] = <<"tree", LastPass'>> /\ env'["tree"] \in stored'
              \/ /\ env'["tree"] = PartCid /\ wrong' >= 1
                 /\ kind' = "twoStep" /\ expectedCids'["tree"] = PartCid =>
                        wrong' >= 2
        BY <1>1, <1>2, <2>2, <2>3
        DEF PublishInv, HashInv, LastPass, Targets
    <3> QED
        BY <3>1, <3>2, <3>3 DEF UploadInv
  <2> QED
      BY <1>6, <2>4, <2>5, <2>6, <2>7 DEF PublishInv
<1> QED
    BY <1>4, <1>7, <1>8

LEMMA PublishStays ==
    ASSUME TypeOK, PublishInv, [Next]_vars PROVE PublishInv'
<1>1. kind = "twoStep" /\ job <= 2 /\ Adding => onlyHash
    BY ChildIs DEF Adding, onlyHash, ComposeUp, TreeUp, TypeOK
<1>2. UNCHANGED stored \/ Adds =>
          /\ stored \subseteq stored'
          /\ onlyHash => stored' = stored
          /\ Adds /\ ~onlyHash => Cid \in stored'
    BY DEF Adds
<1>3. wrong \in Nat /\ wrong \in 0 .. 2
    BY DEF TypeOK
<1>4. ~onlyHash /\ Adding => files[Current.target] = None \/ phase = "start"
    BY ChildIs, Distinct
    DEF Adding, onlyHash, PublishInv, FilesInv, ComposeUp, TreeUp, Running,
        NoCids
<1>5. CASE Start
    BY <1>5, StartKeeps
<1>6. CASE Retry \/ Continue \/ Fallback
    BY <1>6, PublishKept
    DEF Retry, Open, Continue, Fallback, sendBody, runVars, apiVars
<1>7. ASSUME AttemptFails, Adding, wrong' = wrong, phase = "open",
             UNCHANGED stored \/ Adds
      PROVE  PublishInv'
  <2>1. /\ UNCHANGED <<kind, job, runVars>> /\ outcome' \in {outcome, "failed"}
      BY <1>7, FailsTypes DEF ChildTypes
  <2>2. kind = "twoStep" /\ job <= 2 => stored' = stored
      BY <1>1, <1>2, <1>7
  <2> QED
      BY <1>2, <1>7, <2>1, <2>2, PublishKept
<1>8. ASSUME Adding, ~onlyHash, phase = "open", UploadDone,
             NEW hash \in {Cid, PartCid},
             files' \in {files, [files EXCEPT ![Current.target] = hash]},
             stored \subseteq stored',
             \/ hash = Cid /\ Cid \in stored' /\ wrong' = wrong
             \/ /\ hash = PartCid /\ Current.target = "tree"
                /\ wrong' = IF wrong < 2 THEN wrong + 1 ELSE 2
      PROVE  PublishInv'
  <2>1. CASE files' = files
    <3>1. files[Current.target] = None
        BY <1>4, <1>8
    <3>2. files' = [files EXCEPT ![Current.target] = None]
        BY <2>1, <3>1 DEF TypeOK
    <3>3. wrong' \in Nat /\ wrong' >= wrong
        BY <1>3, <1>8
    <3> QED
        BY <1>8, <3>2, <3>3, UploadKeeps
  <2>2. CASE files' = [files EXCEPT ![Current.target] = hash]
      BY <1>8, <2>2, UploadKeeps
  <2> QED
      BY <1>8, <2>1, <2>2
<1>9. CASE Answered
  <2>1. /\ Adding /\ phase = "open" /\ Adds /\ wrong' = wrong
        /\ AttemptGives(Cid)
      BY <1>9, FullGives DEF Answered
  <2>2. CASE onlyHash
      BY <1>2, <1>3, <2>1, <2>2, HashKeeps DEF AttemptGives
  <2>3. CASE ~onlyHash
      BY <1>2, <1>8, <2>1, <2>3 DEF AttemptGives
  <2> QED
      BY <2>2, <2>3
<1>10. CASE AnsweredShort
  <2>1. PICK lines \in CutAnswers(Cid) :
           IF HashOf(lines) = None
           THEN AttemptFails /\ UNCHANGED wrong
           ELSE /\ AttemptGives(HashOf(lines))
                /\ wrong' = IF wrong < 2 THEN wrong + 1 ELSE 2
      BY <1>10 DEF AnsweredShort
  <2>2. Adding /\ phase = "open" /\ stored' = stored
      BY <1>10 DEF AnsweredShort
  <2>3. CASE HashOf(lines) = None
      BY <1>7, <2>1, <2>2, <2>3
  <2>4. CASE HashOf(lines) # None
    <3>1. /\ AttemptGives(PartCid) /\ Current.target = "tree"
          /\ wrong' = IF wrong < 2 THEN wrong + 1 ELSE 2
        BY <2>1, <2>4, ShortGives
    <3>2. wrong' >= wrong /\ wrong' >= 1 /\ wrong' \in Nat
        BY <1>3, <3>1
    <3>3. CASE onlyHash
        BY <2>2, <3>1, <3>2, <3>3, HashKeeps DEF AttemptGives
    <3>4. CASE ~onlyHash
        BY <1>8, <2>2, <3>1, <3>4 DEF AttemptGives
    <3> QED
        BY <3>3, <3>4
  <2> QED
      BY <2>3, <2>4
<1>11. CASE AnswerBreaksOff
  <2>1. /\ Adding /\ phase = "open" /\ wrong' = wrong
        /\ UNCHANGED stored \/ Adds
      BY <1>11 DEF AnswerBreaksOff
  <2>2. CASE onlyHash
      BY <1>2, <1>3, <1>11, <2>1, <2>2, HashKeeps DEF AnswerBreaksOff
  <2>3. CASE ~onlyHash
    <3>1. files' = files /\ UploadDone /\ stored \subseteq stored'
        BY <1>2, <1>11, <2>1, <2>3 DEF AnswerBreaksOff
    <3>2. files[Current.target] = None
        BY <1>4, <2>1, <2>3
    <3>3. files' = [files EXCEPT ![Current.target] = None]
        BY <3>1, <3>2 DEF TypeOK
    <3>4. wrong' \in Nat /\ wrong' >= wrong
        BY <1>3, <2>1
    <3> QED
        BY <2>1, <2>3, <3>1, <3>3, <3>4, UploadKeeps
  <2> QED
      BY <2>2, <2>3
<1>12. CASE AddFails
  <2>1. /\ Adding /\ phase = "open" /\ AttemptFails /\ wrong' = wrong
        /\ UNCHANGED stored \/ Adds
      BY <1>12 DEF AddFails
  <2> QED
      BY <1>7, <2>1
<1>13. CASE Pin
  <2>1. /\ kind = "v1" /\ job \in {3, 4} /\ outcome = "running" /\ GoOn
        /\ UNCHANGED <<runVars, stored, wrong>>
      BY <1>13, ChildIs DEF Pin, Doing
  <2>2. Len(Jobs(kind)) = 6
      BY <2>1, V1Children
  <2>3. job # 6
      BY <2>1
  <2>4. /\ kind' = kind /\ job' = job + 1 /\ outcome' = "running"
        /\ phase' = "start"
      BY <2>1, <2>2, <2>3 DEF GoOn, Fresh
  <2> QED
      BY <2>1, <2>4
      DEF PublishInv, HashInv, FilesInv, UploadInv, EnvInv, PinInv, runVars,
          ComposeUp, TreeUp, First, Past
<1>14. CASE PinFails
  <2>1. /\ UNCHANGED <<kind, job, runVars, stored, wrong>> /\ outcome' = "failed"
      BY <1>14 DEF PinFails, ExitOne
  <2> QED
      BY <2>1, PublishKept
<1>15. CASE Chunk \/ CatEnds \/ CatFails
  <2>1. kind = "download" /\ kind' = kind /\ UNCHANGED <<runVars, apiVars>>
      BY <1>15, ChildIs DEF Chunk, CatEnds, CatFails, Doing, GoOn, ExitOne
  <2> QED
      BY <2>1
      DEF PublishInv, HashInv, FilesInv, UploadInv, EnvInv, PinInv, runVars,
          ComposeUp, TreeUp
<1>16. CASE UNCHANGED vars
    BY <1>16, PublishKept DEF vars, requestVars, apiVars
<1> QED
    BY <1>5, <1>6, <1>9, <1>10, <1>11, <1>12, <1>13, <1>14, <1>15, <1>16
    DEF Next, Child, Api, Add, Over

\* The variables keep their types, and what each child of the publish leaves
\* behind is what the next relies on (ipfs.mjs, run.js:179-218, 608-646).
THEOREM TypesHold == Spec => [](TypeOK /\ PublishInv)
<1>1. Init => TypeOK
  <2> SUFFICES ASSUME Init PROVE TypeOK
      OBVIOUS
  <2>1. Len(Jobs(kind)) \in {1, 4, 6}
      BY TwoStepChildren, V1Children, DownloadChildren DEF Init
  <2>2. job \in 1 .. Len(Jobs(kind))
    <3> DEFINE n == Len(Jobs(kind))
    <3> HIDE DEF n
    <3>1. job = 1 /\ n \in {1, 4, 6}
        BY <2>1 DEF Init, n
    <3>2. job \in 1 .. n
        BY <3>1
    <3> QED
        BY <3>2 DEF n
  <2>3. /\ NoCids \in [Targets -> Cids \cup {None}]
        /\ files \in [Targets -> Cids \cup {None}]
      BY Distinct DEF Init, NoCids
  <2>4. /\ RETRY_COUNT \in Nat /\ 0 < RETRY_COUNT
        /\ maxRetries \in Nat /\ 0 < maxRetries /\ Chunks \in Nat
      BY IpfsAssumption DEF IpfsAssumption
  <2>5. attempt \in Nat /\ attempt < IF kind = "download" THEN maxRetries
                                                        ELSE RETRY_COUNT
      BY <2>4 DEF Init
  <2>6. /\ res \in Seq(0 .. Chunks) /\ at \in 0 .. Chunks /\ clean \in BOOLEAN
        /\ wrong \in 0 .. 2 /\ out = None /\ stored = {} /\ pinned = {} /\ bodies \in Nat
      BY <2>4 DEF Init
  <2> QED
      BY <2>2, <2>3, <2>5, <2>6 DEF Init, TypeOK
<1>2. Init => PublishInv
    BY Distinct
    DEF Init, PublishInv, HashInv, FilesInv, UploadInv, EnvInv, PinInv,
        ComposeUp, TreeUp, First, Past, Running, NoCids
<1>3. TypeOK /\ PublishInv /\ [Next]_vars => (TypeOK /\ PublishInv)'
    BY TypesStay, PublishStays DEF PublishInv
<1> QED
    BY <1>1, <1>2, <1>3, PTL DEF Spec

\* What a publish took for its image is its own and stored, and nothing of the
\* image is stored before both CIDs are registered (run.js:179-218, 608-646).
THEOREM PublishesWhatIsStored == Spec => []PublishedIsStored
<1>1. TypeOK /\ PublishInv => PublishedIsStored
  <2> SUFFICES ASSUME TypeOK, PublishInv PROVE PublishedIsStored
      OBVIOUS
  <2>1. ASSUME kind = "twoStep", stored # {}, NEW t \in Targets
        PROVE  expectedCids[t] # None
    <3>1. job > 1 /\ job > 2
      <4>1. ~(job <= 2)
          BY <2>1 DEF PublishInv, HashInv
      <4>2. job \in Int
          BY ChildIs, <2>1
      <4> QED
          BY <4>1, <4>2
    <3>2. /\ expectedCids["compose"] \in {<<"compose", 1>>, Junk}
          /\ expectedCids["tree"] \in {<<"tree", 1>>, Junk, PartCid}
        BY <2>1, <3>1 DEF PublishInv, HashInv
    <3>3. expectedCids[t] \in Cids
        BY <3>2, Distinct
    <3> QED
        BY <3>3, Distinct
  <2>2. ASSUME outcome = "published", kind # "download", wrong <= Tolerated
        PROVE  LET pass == IF kind = "v1" THEN 2 ELSE 1
               IN  \A t \in Targets :
                      /\ env[t] = <<t, pass>> /\ env[t] \in stored
                      /\ kind = "twoStep" => env[t] = expectedCids[t]
    <3>1. env["compose"] = <<"compose", LastPass>> /\ env["compose"] \in stored
        BY <2>2 DEF PublishInv, UploadInv, Past
    <3>2. kind = "twoStep" => env = expectedCids
        BY <2>2 DEF PublishInv, UploadInv
    <3>3. wrong <= (IF kind = "twoStep" THEN 1 ELSE 0) /\ wrong \in 0 .. 2
        BY <2>2 DEF Tolerated, TypeOK
    <3>4. env["tree"] = <<"tree", LastPass>> /\ env["tree"] \in stored
        BY <2>2, <3>2, <3>3 DEF PublishInv, UploadInv
    <3> QED
        BY <3>1, <3>2, <3>4, Distinct DEF LastPass
  <2> QED
      BY <2>1, <2>2 DEF PublishedIsStored, PublishInv, EnvInv
<1> QED
    BY <1>1, TypesHold, PTL

-----------------------------------------------------------------------------
LEMMA AppendIs ==
    ASSUME NEW S, NEW s \in Seq(S), NEW e \in S
    PROVE  /\ Append(s, e) \in Seq(S) /\ Len(Append(s, e)) = Len(s) + 1
           /\ Append(s, e)[Len(s) + 1] = e
           /\ \A i \in 1 .. Len(s) : Append(s, e)[i] = s[i]
<1> QED
    OBVIOUS

\* A download of one garbled chunk or more, or of too many, is another text.
LEMMA CatGives ==
    ASSUME TypeOK, CatInv, at = Chunks
    PROVE  res = Content <=> clean
<1>1. /\ res \in Seq(0 .. Chunks) /\ Chunks \in Nat /\ Len(res) \in Nat
    BY IpfsAssumption DEF TypeOK, IpfsAssumption
<1>2. /\ Content \in Seq(1 .. Chunks) /\ Len(Content) = Chunks
      /\ \A i \in 1 .. Chunks : Content[i] = i
  <2>1. Content \in [1 .. Chunks -> 1 .. Chunks]
      BY DEF Content
  <2>2. \A i \in 1 .. Chunks : Content[i] = i
      BY DEF Content
  <2> QED
      BY <1>1, <2>1, <2>2
<1>3. CASE clean
  <2>1. Len(res) = Chunks /\ \A i \in 1 .. Chunks : res[i] = i
      BY <1>3 DEF CatInv
  <2>2. res = [i \in 1 .. Chunks |-> res[i]]
      BY <1>1, <2>1
  <2>3. [i \in 1 .. Chunks |-> res[i]] = Content
      BY <2>1 DEF Content
  <2> QED
      BY <1>3, <2>2, <2>3
<1>4. CASE ~clean
  <2>1. CASE Chunks < Len(res)
      BY <1>1, <1>2, <1>4, <2>1
  <2>2. ASSUME NEW i \in 1 .. Len(res), res[i] = Garbled PROVE res # Content
    <3>1. 0 \notin 1 .. Chunks
        OBVIOUS
    <3> QED
        BY <1>2, <2>2, <3>1 DEF Garbled
  <2> QED
      BY <1>4, <2>1, <2>2 DEF CatInv
<1> QED
    BY <1>3, <1>4

LEMMA ChunkKeeps ==
    ASSUME TypeOK, CatInv, Chunk PROVE CatInv'
<1>1. /\ res \in Seq(0 .. Chunks) /\ at \in 0 .. Chunks /\ Chunks \in Nat
      /\ Len(res) \in Nat /\ clean \in BOOLEAN
    BY IpfsAssumption DEF TypeOK, IpfsAssumption
<1>2. at < Chunks /\ at' = at + 1 /\ out' = out /\ out = None
    BY DEF Chunk, CatInv, Doing
<1>3. PICK text \in {at + 1, 0} : /\ res' = Append(res, text)
                                 /\ clean' = (clean /\ text # 0)
    BY DEF Chunk, decode, Garbled
<1>4. text \in 0 .. Chunks
    BY <1>1, <1>2
<1>5. /\ Len(res') = Len(res) + 1 /\ res'[Len(res) + 1] = text
      /\ \A i \in 1 .. Len(res) : res'[i] = res[i]
    BY <1>1, <1>3, <1>4, AppendIs
<1>6. at' <= Len(res')
    BY <1>1, <1>2, <1>5 DEF CatInv
<1>7. clean' => Len(res') = at' /\ \A i \in 1 .. at' : res'[i] = i
  <2> SUFFICES ASSUME clean'
               PROVE  Len(res') = at' /\ \A i \in 1 .. at' : res'[i] = i
      OBVIOUS
  <2>1. clean /\ text = at + 1
      BY <1>3
  <2>2. Len(res) = at /\ \A i \in 1 .. at : res[i] = i
      BY <2>1 DEF CatInv
  <2>3. ASSUME NEW i \in 1 .. at' PROVE res'[i] = i
    <3>1. i = at + 1 \/ i \in 1 .. at
        BY <1>1, <1>2
    <3> QED
        BY <1>5, <2>1, <2>2, <3>1
  <2> QED
      BY <1>2, <1>5, <2>2, <2>3
<1>8. ~clean' => \/ at' < Len(res')
                 \/ \E i \in 1 .. Len(res') : res'[i] = Garbled
  <2>1. CASE text = 0
    <3>1. Len(res) + 1 \in 1 .. Len(res')
        BY <1>1, <1>5
    <3> QED
        BY <1>5, <2>1, <3>1 DEF Garbled
  <2>2. CASE ~clean
    <3>1. CASE at < Len(res)
        BY <1>1, <1>2, <1>5, <3>1
    <3>2. ASSUME NEW i \in 1 .. Len(res), res[i] = Garbled
          PROVE  \E j \in 1 .. Len(res') : res'[j] = Garbled
      <4>1. i \in 1 .. Len(res') /\ res'[i] = Garbled
          BY <1>1, <1>5, <3>2
      <4> QED
          BY <4>1
    <3> QED
        BY <2>2, <3>1, <3>2 DEF CatInv
  <2> QED
      BY <1>3, <2>1, <2>2
<1> QED
    BY <1>2, <1>6, <1>7, <1>8 DEF CatInv, DownloadIsWhole

LEMMA CatStays ==
    ASSUME TypeOK, CatInv, [Next]_vars PROVE CatInv'
<1>1. /\ res \in Seq(0 .. Chunks) /\ at \in 0 .. Chunks /\ Chunks \in Nat
      /\ Len(res) \in Nat /\ clean \in BOOLEAN
    BY IpfsAssumption DEF TypeOK, IpfsAssumption
<1>2. ASSUME UNCHANGED catVars, outcome = "running" \/ UNCHANGED outcome
      PROVE  CatInv'
  <2>1. out' # None => outcome' # "running"
      BY <1>2 DEF CatInv, catVars
  <2> QED
      BY <1>2, <2>1 DEF CatInv, DownloadIsWhole, catVars
<1>3. CASE Start \/ Retry \/ Continue \/ Fallback
    BY <1>2, <1>3
    DEF Start, Retry, Open, Continue, Fallback, sendBody, Adding
<1>4. CASE Answered \/ AnsweredShort \/ AnswerBreaksOff \/ AddFails
    BY <1>2, <1>4 DEF Answered, AnsweredShort, AnswerBreaksOff, AddFails, Adding
<1>5. CASE Pin \/ PinFails
    BY <1>2, <1>5 DEF Pin, PinFails, Doing
<1>6. CASE Chunk
    BY <1>6, ChunkKeeps
<1>7. CASE CatEnds
  <2>1. at = Chunks /\ out' = res /\ UNCHANGED <<res, at, clean>> /\ GoOn
      BY <1>7 DEF CatEnds
  <2>2. outcome' = "published"
    <3>1. Len(Jobs(kind)) = 1 /\ job = 1
        BY <1>7, ChildIs, DownloadChildren DEF CatEnds, Doing
    <3> QED
        BY <2>1, <3>1 DEF GoOn
  <2>3. res = Content <=> clean
      BY <2>1, CatGives
  <2>4. DownloadIsWhole'
      BY <2>1, <2>3 DEF DownloadIsWhole, Content
  <2> QED
      BY <2>1, <2>2, <2>4 DEF CatInv
<1>8. CASE CatFails
  <2>1. /\ UNCHANGED <<res, out>> /\ outcome = "running"
        /\ \/ at' = 0 /\ clean' = (clean /\ at = 0)
           \/ UNCHANGED <<at, clean>>
      BY <1>8 DEF CatFails, ExitOne, Doing
  <2>2. out = None /\ at <= Len(res)
      BY <2>1 DEF CatInv
  <2>3. at' <= Len(res)
      BY <1>1, <2>1, <2>2
  <2>4. clean' => Len(res) = at' /\ \A i \in 1 .. at' : res[i] = i
      BY <1>1, <2>1 DEF CatInv
  <2>5. ~clean' => \/ at' < Len(res)
                   \/ \E i \in 1 .. Len(res) : res[i] = Garbled
      BY <1>1, <2>1, <2>2 DEF CatInv
  <2> QED
      BY <2>1, <2>2, <2>3, <2>4, <2>5 DEF CatInv, DownloadIsWhole, Garbled
<1>9. CASE UNCHANGED vars
    BY <1>2, <1>9 DEF vars
<1> QED
    BY <1>3, <1>4, <1>5, <1>6, <1>7, <1>8, <1>9
    DEF Next, Child, Api, Add, Over

\* A downloaded file is the content exactly while no attempt that failed left
\* a chunk and every chunk was a text by itself, for any number of chunks and
\* of attempts (ipfs.mjs:391-409).
THEOREM DownloadsTheWhole == Spec => []DownloadIsWhole
<1>1. Init => CatInv
  <2>1. Init => res = <<>> /\ at = 0 /\ out = None /\ clean
      BY DEF Init
  <2> QED
      BY <2>1 DEF CatInv, DownloadIsWhole
<1>2. CatInv => DownloadIsWhole
    BY DEF CatInv
<1> QED
    BY <1>1, <1>2, TypesHold, CatStays, PTL DEF Spec
=============================================================================
