---------------------------- MODULE PluginsProofs ----------------------------
(***************************************************************************)
(* Theorems about Export, Backup and Importer, for any directories, files, *)
(* names, retentions and exports: each alone, and then the three together  *)
(* in MCPlugins. At the end, because its folds go like those of the        *)
(* importer, what Catalog makes of any packs.                              *)
(***************************************************************************)
EXTENDS MCPlugins, PureFunctions, FiniteSetTheorems, SequenceTheorems, TLAPS

(* Who is writing has truncated the file and nobody has touched it since.  *)
Writing == writing # None => file[writing] = Empty

(* What nobody has touched is whole, and is in the archive, or listed, or  *)
(* in a directory that is still to be listed.                              *)
Way(f) ==
    /\ file[f] \in Values
    /\ \/ zip[f] = file[f]
       \/ f \in todo
       \/ \E i \in DOMAIN left : left[i] = DirectoryOf[f]

Steady ==
    /\ stage = "idle" => steady = {}
    /\ stage = "made" => todo = {} /\ left = <<>>
    /\ \A f \in steady : Way(f)

ExportInv == E!TypeOK /\ Writing /\ Steady /\ E!NoLeftovers

-----------------------------------------------------------------------------
(* What Export calls finite, and the number of elements, is what the       *)
(* library's theorems are about.                                           *)
LEMMA ExportCounts ==
    \A S : (E!IsFiniteSet(S) <=> IsFiniteSet(S)) /\ E!Cardinality(S) = Cardinality(S)
<1>1. \A S : E!IsFiniteSet(S) <=> IsFiniteSet(S)
  BY DEF E!IsFiniteSet, IsFiniteSet
<1>2. \A S : E!Cardinality(S) = Cardinality(S)
  BY Zenon DEF E!Cardinality, Cardinality
<1> QED
  BY <1>1, <1>2

-----------------------------------------------------------------------------
(* Links can be counted.                                                   *)
LEMMA LinksCounted ==
    ASSUME E!Setting, E!TypeOK
    PROVE  /\ IsFiniteSet(E!Live) /\ Cardinality(E!Live) \in Nat
           /\ IsFiniteSet(E!Expired) /\ E!Expired \subseteq E!Live
           /\ Cardinality(E!Expired) \in Nat
<1>1. E!Live \subseteq Links /\ E!Expired \subseteq E!Live /\ IsFiniteSet(Links)
  BY ExportCounts DEF E!Live, E!Expired, E!Setting
<1>2. IsFiniteSet(E!Live)
  BY <1>1, FS_Subset
<1>3. IsFiniteSet(E!Expired)
  BY <1>1, <1>2, FS_Subset
<1> QED
  BY <1>1, <1>2, <1>3, FS_CardinalityType

(* No archive, no link.                                                    *)
LEMMA ExportInitially ==
    ASSUME E!Setting, E!Init
    PROVE  ExportInv
<1>1. E!Live = {}
  BY DEF E!Init, E!Live
<1>2. E!NoLeftovers
  BY <1>1, FS_EmptySet, ExportCounts DEF E!Init, E!NoLeftovers
<1>3. left \in Seq(E!Walked) /\ downloads \in [Links -> 0..TTL + 1 \cup {None}]
  BY DEF E!Init, E!Setting
<1>4. E!TypeOK
  BY <1>3 DEF E!Init, E!TypeOK
<1> QED
  BY <1>2, <1>4 DEF E!Init, ExportInv, Writing, Steady

-----------------------------------------------------------------------------
(* Other requests.                                                         *)
LEMMA TruncateStep ==
    ASSUME E!Setting, ExportInv, NEW f \in E!Files, E!Truncate(f)
    PROVE  ExportInv'
<1>1. E!TypeOK'
  BY DEF ExportInv, E!TypeOK, E!Truncate, E!archive
<1>2. Writing'
  BY DEF ExportInv, E!TypeOK, Writing, E!Truncate
<1>3. Steady'
  BY DEF ExportInv, E!TypeOK, Steady, Way, E!Truncate, E!archive
<1>4. E!NoLeftovers'
  BY DEF ExportInv, E!NoLeftovers, E!Live, E!Truncate, E!archive
<1> QED
  BY <1>1, <1>2, <1>3, <1>4 DEF ExportInv

(* What is written was truncated since the walk began, and is not steady.  *)
LEMMA WriteStep ==
    ASSUME E!Setting, ExportInv, NEW f \in E!Files, E!Write(f)
    PROVE  ExportInv'
<1>1. E!TypeOK'
  BY DEF ExportInv, E!TypeOK, E!Write, E!archive
<1>2. f \notin steady
  BY DEF ExportInv, Writing, Steady, Way, E!Write, E!Setting
<1>3. Steady' /\ Writing'
  BY <1>2 DEF ExportInv, E!TypeOK, Steady, Way, Writing, E!Write, E!archive
<1>4. E!NoLeftovers'
  BY DEF ExportInv, E!NoLeftovers, E!Live, E!Write, E!archive
<1> QED
  BY <1>1, <1>3, <1>4 DEF ExportInv

(* A file that is removed is steady no more.                               *)
LEMMA RemoveStep ==
    ASSUME E!Setting, ExportInv, NEW f \in E!Files, E!Remove(f)
    PROVE  ExportInv'
<1>1. E!TypeOK'
  BY DEF ExportInv, E!TypeOK, E!Remove, E!archive
<1>2. writing # f
  BY DEF ExportInv, Writing, E!Remove, E!Setting
<1>3. Steady' /\ Writing'
  BY <1>2 DEF ExportInv, E!TypeOK, Steady, Way, Writing, E!Remove, E!archive
<1>4. E!NoLeftovers'
  BY DEF ExportInv, E!NoLeftovers, E!Live, E!Remove, E!archive
<1> QED
  BY <1>1, <1>3, <1>4 DEF ExportInv

-----------------------------------------------------------------------------
(* The export.                                                             *)
LEMMA StartStep ==
    ASSUME E!Setting, ExportInv, E!StartExport
    PROVE  ExportInv'
<1>1. E!TypeOK'
  BY DEF ExportInv, E!TypeOK, E!StartExport, E!Setting
<1>2. Steady'
  <2>1. \A f \in E!Files : \E i \in DOMAIN Directories : Directories[i] = DirectoryOf[f]
    BY DEF E!Setting, E!Walked
  <2> QED
    BY <2>1 DEF Steady, Way, E!StartExport
<1>3. Writing'
  BY DEF ExportInv, Writing, E!StartExport
<1>4. E!NoLeftovers'
  <2>1. E!Live' = E!Live
    BY DEF E!Live, E!StartExport
  <2> QED
    BY <2>1, LinksCounted, ExportCounts DEF ExportInv, E!TypeOK, E!NoLeftovers, E!StartExport
<1> QED
  BY <1>1, <1>2, <1>3, <1>4 DEF ExportInv

(* A walk that fails takes its archive with it.                            *)
LEMMA FailStep ==
    ASSUME E!Setting, ExportInv, stage = "walk", E!FailExport,
           UNCHANGED <<file, writing, downloads, handed>>
    PROVE  ExportInv'
<1>1. E!Live' = E!Live
  BY DEF E!Live
<1>2. temps' \in Nat /\ E!NoLeftovers'
  BY <1>1, LinksCounted, ExportCounts
     DEF ExportInv, E!TypeOK, E!NoLeftovers, E!FailExport, E!DropArchive
<1>3. left' \in Seq(E!Walked)
  BY DEF E!FailExport
<1>4. E!TypeOK'
  BY <1>2, <1>3 DEF ExportInv, E!TypeOK, E!FailExport
<1> QED
  BY <1>2, <1>4 DEF ExportInv, Writing, Steady, E!FailExport

(* What a directory has is on the list when it leaves the directories to   *)
(* come.                                                                   *)
LEMMA ListDirectoryStep ==
    ASSUME E!Setting, ExportInv, E!ListDirectory
    PROVE  ExportInv'
<1>1. left \in Seq(E!Walked) /\ left # <<>>
  BY DEF ExportInv, E!TypeOK, E!ListDirectory
<1>2. Tail(left) \in Seq(E!Walked)
  BY <1>1
<1>3. E!TypeOK'
  BY <1>2 DEF ExportInv, E!TypeOK, E!ListDirectory
<1>4. Steady'
  <2>1. \A i \in DOMAIN left :
          left[i] = Head(left) \/ \E j \in DOMAIN Tail(left) : Tail(left)[j] = left[i]
    <3>1. \A i \in DOMAIN left : i # 1 => i - 1 \in DOMAIN Tail(left)
                                          /\ Tail(left)[i - 1] = left[i]
      BY <1>1
    <3>2. \A i \in DOMAIN left : i = 1 => left[i] = Head(left)
      BY <1>1
    <3> QED
      BY <3>1, <3>2
  <2>2. ASSUME NEW f \in steady PROVE Way(f)'
    <3>1. f \in E!Files /\ Way(f) /\ file[f] # None
      BY DEF ExportInv, E!TypeOK, Steady, Way, E!Setting
    <3> QED
      BY <2>1, <3>1 DEF Way, E!ListDirectory
  <2> QED
    BY <2>2 DEF ExportInv, Steady, E!ListDirectory
<1>5. Writing' /\ E!NoLeftovers'
  BY DEF ExportInv, Writing, E!NoLeftovers, E!Live, E!ListDirectory
<1> QED
  BY <1>3, <1>4, <1>5 DEF ExportInv

(* A listed file is in the archive as it is, or has gone and fails the     *)
(* walk.                                                                   *)
LEMMA AddStep ==
    ASSUME E!Setting, ExportInv, NEW f \in E!Files, E!AddFile(f)
    PROVE  ExportInv'
<1>1. CASE file[f] = None
  BY <1>1, FailStep DEF E!AddFile
<1>2. CASE file[f] # None
  <2>1. E!TypeOK'
    BY <1>2 DEF ExportInv, E!TypeOK, E!AddFile
  <2>2. Steady'
    BY <1>2 DEF ExportInv, E!TypeOK, Steady, Way, E!AddFile
  <2>3. Writing' /\ E!NoLeftovers'
    BY <1>2 DEF ExportInv, Writing, E!NoLeftovers, E!Live, E!AddFile
  <2> QED
    BY <2>1, <2>2, <2>3 DEF ExportInv
<1> QED
  BY <1>1, <1>2

(* The walk is over when nothing is listed and no directory is left.       *)
LEMMA CloseStep ==
    ASSUME E!Setting, ExportInv, E!CloseArchive
    PROVE  ExportInv'
<1>1. CASE E!FailExport
  BY <1>1, FailStep DEF E!CloseArchive
<1>2. CASE stage' = "made" /\ UNCHANGED <<left, todo, zip, temps, steady>>
  <2>1. E!Live' = E!Live
    BY DEF E!Live, E!CloseArchive
  <2>2. E!NoLeftovers'
    BY <1>2, <2>1 DEF ExportInv, E!NoLeftovers, E!CloseArchive
  <2> QED
    BY <1>2, <2>2 DEF ExportInv, E!TypeOK, Writing, Steady, Way, E!CloseArchive
<1> QED
  BY <1>1, <1>2 DEF E!CloseArchive

-----------------------------------------------------------------------------
(* What becomes of an archive.                                             *)
LEMMA HandOverStep ==
    ASSUME E!Setting, ExportInv, E!HandOver
    PROVE  ExportInv'
<1>1. E!Live' = E!Live
  BY DEF E!Live, E!HandOver
<1>2. E!NoLeftovers'
  BY <1>1, LinksCounted, ExportCounts
     DEF ExportInv, E!TypeOK, E!NoLeftovers, E!HandOver, E!Made
<1> QED
  BY <1>2 DEF ExportInv, E!TypeOK, Writing, Steady, E!HandOver, E!Made

(* The plugin removes what it was handed.                                  *)
LEMMA RemovesStep ==
    ASSUME E!Setting, ExportInv, E!PluginRemoves
    PROVE  ExportInv'
<1>1. E!Live' = E!Live
  BY DEF E!Live, E!PluginRemoves
<1>2. temps' \in Nat /\ E!NoLeftovers'
  BY <1>1, LinksCounted, ExportCounts
     DEF ExportInv, E!TypeOK, E!NoLeftovers, E!PluginRemoves, E!archive
<1> QED
  BY <1>2 DEF ExportInv, E!TypeOK, Writing, Steady, Way, E!PluginRemoves, E!archive

(* A new link takes the archive over, and the expired ones are dropped     *)
(* with theirs.                                                            *)
LEMMA StoreStep ==
    ASSUME E!Setting, ExportInv, NEW k \in Links, E!StoreDownload(k)
    PROVE  ExportInv'
<1>1. E!Live' = (E!Live \ E!Expired) \cup {k} /\ k \notin E!Live
  BY DEF ExportInv, E!TypeOK, E!Live, E!Expired, E!StoreDownload, E!Setting
<1>2. /\ IsFiniteSet(E!Live) /\ Cardinality(E!Live) \in Nat
      /\ Cardinality(E!Expired) \in Nat /\ E!Live \cap E!Expired = E!Expired
  BY LinksCounted DEF ExportInv
<1>3. IsFiniteSet(E!Live \ E!Expired)
      /\ Cardinality(E!Live \ E!Expired) = Cardinality(E!Live) - Cardinality(E!Expired)
  BY <1>2, FS_Difference
<1>4. Cardinality(E!Live') = Cardinality(E!Live) - Cardinality(E!Expired) + 1
  BY <1>1, <1>3, FS_AddElement
<1>5. Cardinality(E!Live \ E!Expired) \in Nat
  BY <1>3, FS_CardinalityType
<1>6. temps' \in Nat /\ E!NoLeftovers'
  BY <1>2, <1>3, <1>4, <1>5, ExportCounts, SMTT(30)
     DEF ExportInv, E!TypeOK, E!NoLeftovers, E!StoreDownload, E!Made
<1>7. E!TypeOK'
  BY <1>6 DEF ExportInv, E!TypeOK, E!StoreDownload, E!Made, E!Setting
<1> QED
  BY <1>6, <1>7 DEF ExportInv, Writing, Steady, E!StoreDownload, E!Made

(* Time makes links expire and touches no file.                            *)
LEMMA HourStep ==
    ASSUME E!Setting, ExportInv, E!Hour
    PROVE  ExportInv'
<1>1. E!TypeOK' /\ E!Live' = E!Live
  BY DEF ExportInv, E!TypeOK, E!Live, E!Hour, E!archive, E!Setting
<1>2. E!NoLeftovers'
  BY <1>1, ExportCounts DEF ExportInv, E!NoLeftovers, E!Hour, E!archive
<1> QED
  BY <1>1, <1>2 DEF ExportInv, Writing, Steady, Way, E!Hour, E!archive

(* Every step of an export, and of the requests beside it.                 *)
LEMMA ExportInductive ==
    ASSUME E!Setting
    PROVE  ExportInv /\ [E!Next]_E!vars => ExportInv'
<1> SUFFICES ASSUME ExportInv, [E!Next]_E!vars PROVE ExportInv'
  OBVIOUS
<1>1. CASE \E f \in E!Files : E!Truncate(f) \/ E!Write(f) \/ E!Remove(f) \/ E!AddFile(f)
  BY <1>1, TruncateStep, WriteStep, RemoveStep, AddStep
<1>2. CASE E!StartExport \/ E!ListDirectory \/ E!CloseArchive
  BY <1>2, StartStep, ListDirectoryStep, CloseStep
<1>3. CASE E!HandOver \/ E!PluginRemoves \/ E!Hour \/ \E k \in Links : E!StoreDownload(k)
  BY <1>3, HandOverStep, RemovesStep, HourStep, StoreStep
<1>4. CASE UNCHANGED E!vars
  BY <1>4 DEF E!vars, ExportInv, E!TypeOK, Writing, Steady, Way, E!NoLeftovers, E!Live
<1> QED
  BY <1>1, <1>2, <1>3, <1>4 DEF E!Next

-----------------------------------------------------------------------------
(* An archive that was made holds, as it is, every file that nobody has    *)
(* touched since the export began; and every temporary archive is being    *)
(* made, with a plugin, or behind a link.                                  *)
THEOREM ArchivesWhole ==
    ASSUME E!Setting
    PROVE  E!Spec => [](E!TypeOK /\ E!ExportWhole)
<1>1. ExportInv => E!TypeOK /\ E!ExportWhole
  BY DEF ExportInv, Steady, Way, E!ExportWhole, E!ArchiveWhole
<1>2. E!Init => ExportInv
  BY ExportInitially
<1>3. ExportInv /\ [E!Next]_E!vars => ExportInv'
  BY ExportInductive
<1> QED
  BY <1>1, <1>2, <1>3, PTL DEF E!Spec

-----------------------------------------------------------------------------
(* The backup plugin. No two uploads have one name, the archive at hand is *)
(* none of them until it is the last, and while old ones are deleted those *)
(* still to be deleted are the first, after which as many are left as were *)
(* to be kept.                                                             *)
Distinct == \A i, j \in DOMAIN uploads : uploads[i] = uploads[j] => i = j

First(n) == {uploads[i] : i \in 1..n}

Trimming(d) ==
    /\ doomed = First(d)
    /\ Len(uploads) - d <= kept
    /\ d # 0 => Len(uploads) - d = kept

AtHand ==
    /\ bpc \in {"collect", "upload"} => upload \in Names \ B!ToSet(uploads)
    /\ bpc \in {"list", "prune"} =>
         uploads # <<>> /\ upload = uploads[Len(uploads)] /\ latest = upload

Trimmed ==
    /\ bpc # "none" => kept \in Retentions
    /\ bpc # "prune" => doomed = {}
    /\ bpc = "prune" => \E d \in 0..Len(uploads) - 1 : Trimming(d)

Acknowledged == latest # None => latest \in B!ToSet(uploads)

BackupInv ==
    B!TypeOK /\ Distinct /\ AtHand /\ Trimmed /\ Acknowledged /\ B!StatusTrue

-----------------------------------------------------------------------------
(* What Backup calls finite, and the number of elements.                   *)
LEMMA BackupCounts ==
    \A S : (B!IsFiniteSet(S) <=> IsFiniteSet(S)) /\ B!Cardinality(S) = Cardinality(S)
<1>1. \A S : B!IsFiniteSet(S) <=> IsFiniteSet(S)
  BY DEF B!IsFiniteSet, IsFiniteSet
<1>2. \A S : B!Cardinality(S) = Cardinality(S)
  BY Zenon DEF B!Cardinality, Cardinality
<1> QED
  BY <1>1, <1>2

(* Names that differ are as many as their places.                          *)
LEMMA FirstCounted ==
    ASSUME uploads \in Seq(Names), Distinct, NEW n \in 0..Len(uploads)
    PROVE  B!Cardinality(First(n)) = n
<1> DEFINE f == [i \in 1..n |-> uploads[i]]
<1>1. f \in Bijection(1..n, First(n))
  <2>1. f \in [1..n -> First(n)]
    BY DEF First
  <2>2. \A i, j \in 1..n : f[i] = f[j] => i = j
    BY DEF Distinct
  <2>3. \A x \in First(n) : \E i \in 1..n : f[i] = x
    BY DEF First
  <2> QED
    BY <2>1, <2>2, <2>3 DEF Bijection, Injection, Surjection, IsInjective
<1>2. IsFiniteSet(1..n) /\ Cardinality(1..n) = n
  BY FS_Interval
<1>3. Cardinality(First(n)) = n
  BY <1>1, <1>2, FS_Bijection, Zenon DEF ExistsBijection
<1> QED
  BY <1>3, BackupCounts

(* A name that is not there yet makes the uploads longer by one.           *)
LEMMA AppendNew ==
    ASSUME uploads \in Seq(Names), Distinct, NEW n \in Names \ B!ToSet(uploads),
           uploads' = Append(uploads, n)
    PROVE  /\ uploads' \in Seq(Names) /\ Distinct'
           /\ B!ToSet(uploads') = B!ToSet(uploads) \cup {n}
           /\ uploads' # <<>> /\ uploads'[Len(uploads')] = n
<1>1. /\ uploads' \in Seq(Names) /\ Len(uploads') = Len(uploads) + 1
      /\ \A i \in 1..Len(uploads) : uploads'[i] = uploads[i]
      /\ uploads'[Len(uploads) + 1] = n
  BY AppendProperties
<1>2. DOMAIN uploads = 1..Len(uploads) /\ DOMAIN uploads' = 1..Len(uploads) + 1
  BY <1>1
<1>3. \A i \in DOMAIN uploads : uploads[i] # n
  BY DEF B!ToSet
<1>4. Distinct'
  BY <1>1, <1>2, <1>3 DEF Distinct
<1>5. B!ToSet(uploads') = B!ToSet(uploads) \cup {n}
  BY <1>1, <1>2 DEF B!ToSet
<1> QED
  BY <1>1, <1>4, <1>5

(* Taking one away moves up what came after it.                            *)
LEMMA RemoveOne ==
    ASSUME uploads \in Seq(Names), Distinct, NEW k \in 1..Len(uploads),
           uploads' = B!RemoveAt(uploads, k)
    PROVE  /\ uploads' \in Seq(Names) /\ Len(uploads') = Len(uploads) - 1
           /\ \A i \in 1..Len(uploads') :
                uploads'[i] = IF i < k THEN uploads[i] ELSE uploads[i + 1]
           /\ Distinct'
           /\ \A x \in B!ToSet(uploads) : x # uploads[k] => x \in B!ToSet(uploads')
<1> DEFINE a == SubSeq(uploads, 1, k - 1)
           b == SubSeq(uploads, k + 1, Len(uploads))
<1>1. /\ a \in Seq(Names) /\ Len(a) = k - 1
      /\ \A i \in 1..k - 1 : a[i] = uploads[i]
  BY SubSeqProperties
<1>2. /\ b \in Seq(Names) /\ Len(b) = Len(uploads) - k
      /\ \A i \in 1..Len(uploads) - k : b[i] = uploads[k + i]
  BY SubSeqProperties
<1>3. /\ a \o b \in Seq(Names) /\ Len(a \o b) = Len(uploads) - 1
      /\ \A i \in 1..Len(uploads) - 1 :
           (a \o b)[i] = IF i <= k - 1 THEN a[i] ELSE b[i - (k - 1)]
  <2> HIDE DEF a, b
  <2>1. /\ a \o b \in Seq(Names) /\ Len(a \o b) = Len(a) + Len(b)
        /\ \A i \in 1..Len(a) + Len(b) :
             (a \o b)[i] = IF i <= Len(a) THEN a[i] ELSE b[i - Len(a)]
    BY <1>1, <1>2, ConcatProperties
  <2>2. Len(a) + Len(b) = Len(uploads) - 1
    BY <1>1, <1>2
  <2> QED
    BY <1>1, <2>1, <2>2
<1>4. uploads' = a \o b
  BY DEF B!RemoveAt
<1>5. /\ uploads' \in Seq(Names) /\ Len(uploads') = Len(uploads) - 1
      /\ DOMAIN uploads = 1..Len(uploads) /\ DOMAIN uploads' = 1..Len(uploads) - 1
  <2> HIDE DEF a, b
  <2>1. uploads' \in Seq(Names) /\ Len(uploads') = Len(uploads) - 1
    BY <1>3, <1>4
  <2>2. DOMAIN uploads = 1..Len(uploads) /\ DOMAIN uploads' = 1..Len(uploads')
    BY <2>1, LenProperties
  <2> QED BY <2>1, <2>2
<1>6. \A i \in 1..Len(uploads') :
        uploads'[i] = IF i < k THEN uploads[i] ELSE uploads[i + 1]
  <2> SUFFICES ASSUME NEW i \in 1..Len(uploads')
               PROVE  uploads'[i] = IF i < k THEN uploads[i] ELSE uploads[i + 1]
    OBVIOUS
  <2> HIDE DEF a, b
  <2>1. CASE i < k
    BY <1>1, <1>3, <1>4, <1>5, <2>1
  <2>2. CASE ~(i < k)
    <3>1. i - (k - 1) \in 1..Len(uploads) - k /\ k + (i - (k - 1)) = i + 1
      BY <1>5, <2>2
    <3> QED
      BY <1>2, <1>3, <1>4, <1>5, <2>2, <3>1
  <2> QED
    BY <2>1, <2>2
<1>7. Distinct'
  <2> SUFFICES ASSUME NEW i \in 1..Len(uploads) - 1, NEW j \in 1..Len(uploads) - 1,
                      uploads'[i] = uploads'[j]
               PROVE  i = j
    BY <1>5 DEF Distinct
  <2> DEFINE Was(m) == IF m < k THEN m ELSE m + 1
  <2>1. Len(uploads) \in Nat
    BY <1>5, LenProperties
  <2>2. \A m \in 1..Len(uploads) - 1 :
          Was(m) \in DOMAIN uploads /\ uploads'[m] = uploads[Was(m)]
    BY <1>5, <1>6, <2>1, SMTT(30)
  <2>3. Was(i) = Was(j)
    <3> HIDE DEF Was
    <3> QED BY <2>2 DEF Distinct
  <2> QED BY <2>1, <2>3
<1>8. ASSUME NEW x \in B!ToSet(uploads), x # uploads[k] PROVE x \in B!ToSet(uploads')
  <2>1. PICK i \in 1..Len(uploads) : uploads[i] = x
    BY <1>5 DEF B!ToSet
  <2>2. CASE i < k
    <3>1. i \in 1..Len(uploads') /\ uploads'[i] = x
      BY <1>5, <1>6, <2>1, <2>2
    <3> QED
      BY <1>5, <3>1 DEF B!ToSet
  <2>3. CASE i > k
    <3>1. i - 1 \in 1..Len(uploads') /\ uploads'[i - 1] = x
      BY <1>5, <1>6, <2>1, <2>3
    <3> QED
      BY <1>5, <3>1 DEF B!ToSet
  <2> QED
    BY <1>8, <2>1, <2>2, <2>3
<1> QED
  BY <1>5, <1>6, <1>7, <1>8

-----------------------------------------------------------------------------
(* A server starts empty.                                                  *)
LEMMA NoUploads == <<>> \in Seq(Names)
OBVIOUS

(* Nothing is uploaded, promised or under way.                             *)
LEMMA BackupInitially ==
    ASSUME B!Setting, B!Init
    PROVE  BackupInv
<1>1. B!TypeOK
  <2>1. age \in 0..Interval /\ faults \in 0..MaxFaults /\ uploads \in Seq(Names)
    BY NoUploads DEF B!Setting, B!Init
  <2> QED
    BY <2>1, Zenon DEF B!Init, B!TypeOK
<1> QED
  BY <1>1 DEF B!Setting, B!Init, BackupInv, Distinct, AtHand, Trimmed, Acknowledged,
              B!StatusTrue

(* What says nothing of the backups themselves leaves what holds of them.  *)
LEMMA Untouched ==
    ASSUME BackupInv, UNCHANGED <<uploads, kept, upload, doomed, latest, name, failed,
                                  promised, bpc>>
    PROVE  (Distinct /\ AtHand /\ Trimmed /\ Acknowledged /\ B!StatusTrue)'
BY DEF BackupInv, Distinct, AtHand, Trimmed, Trimming, First, Acknowledged,
       B!StatusTrue, B!SaysSuccess, B!ToSet, B!Last

(* The scheduler moves no archive and says nothing.                        *)
LEMMA ScheduleStep ==
    ASSUME B!Setting, BackupInv,
           B!Configure \/ B!Select \/ B!Check \/ B!Start \/ B!Hour
    PROVE  BackupInv'
<1>1. UNCHANGED <<uploads, kept, upload, doomed, latest, name, failed, promised, bpc>>
  BY DEF B!Configure, B!Select, B!Check, B!Rearm, B!Start, B!Hour, B!config, B!state,
         B!scheduler, B!backup
<1>2. B!TypeOK'
  <2>1. B!TypeOK
    BY DEF BackupInv
  <2>2. CASE B!Configure
    <3>1. enabled' \in BOOLEAN /\ keep' \in Retentions /\ wake' \in BOOLEAN
      BY <2>2 DEF B!Configure
    <3>2. UNCHANGED <<B!state, uploads, running, armed, spc, B!backup, faults, latest>>
      BY <2>2 DEF B!Configure
    <3> QED
      BY <2>1, <3>1, <3>2 DEF B!TypeOK, B!state, B!backup
  <2>3. CASE B!Select
    <3>1. spc' = "check" /\ armed' \in BOOLEAN /\ wake' \in BOOLEAN
      BY <2>1, <2>3 DEF B!TypeOK, B!Select
    <3>2. UNCHANGED <<enabled, keep, age, name, failed, promised, uploads, running,
                      bpc, by, kept, upload, doomed, faults, latest>>
      BY <2>3 DEF B!Select, B!config, B!state, B!backup
    <3> QED
      BY <2>1, <3>1, <3>2, SMTT(30) DEF B!TypeOK
  <2>4. CASE B!Check
    <3>1. spc' \in {"select", "check", "try", "wait"} /\ armed' \in BOOLEAN
      BY <2>1, <2>4 DEF B!TypeOK, B!Check, B!Rearm
    <3>2. UNCHANGED <<B!config, B!state, uploads, running, wake, B!backup, faults,
                      latest>>
      BY <2>4 DEF B!Check
    <3> QED
      BY <2>1, <3>1, <3>2 DEF B!TypeOK, B!config, B!state, B!backup
  <2>5. CASE B!Start
    BY <2>1, <2>5 DEF B!TypeOK, B!Start, B!config, B!state, B!backup
  <2>6. CASE B!Hour
    BY <2>1, <2>6 DEF B!TypeOK, B!Setting, B!Hour, B!config, B!scheduler, B!backup
  <2> QED
    BY <2>2, <2>3, <2>4, <2>5, <2>6
<1> QED
  BY <1>1, <1>2, Untouched DEF BackupInv

(* A backup begins: nothing was at hand.                                   *)
LEMMA BeginStep ==
    ASSUME B!Setting, BackupInv, B!TryBackup \/ B!BackupNow
    PROVE  BackupInv'
<1>1. B!TypeOK'
  BY DEF BackupInv, B!TypeOK, B!Setting, B!TryBackup, B!BackupNow, B!Begin, B!Rearm,
         B!config, B!state, B!scheduler, B!backup
<1>2. CASE bpc' = bpc
  <2>1. UNCHANGED <<uploads, kept, upload, doomed, latest, name, failed, promised, bpc>>
    BY <1>2 DEF B!TryBackup, B!BackupNow, B!Begin, B!backup, B!state
  <2> QED
    BY <1>1, <2>1, Untouched DEF BackupInv
<1>3. CASE bpc' # bpc
  <2>1. /\ bpc' = "attempt" /\ bpc = "none" /\ kept' = keep
        /\ UNCHANGED <<uploads, doomed, latest>>
    BY <1>3 DEF B!TryBackup, B!BackupNow, B!Begin, B!backup
  <2>2. AtHand' /\ Trimmed' /\ B!StatusTrue'
    BY <2>1 DEF BackupInv, B!TypeOK, AtHand, Trimmed, B!StatusTrue
  <2>3. Distinct' /\ Acknowledged'
    BY <2>1 DEF BackupInv, Distinct, Acknowledged, B!ToSet
  <2> QED
    BY <1>1, <2>2, <2>3 DEF BackupInv
<1> QED
  BY <1>2, <1>3

(* A backup that ends without success has written that down, or there is   *)
(* no promise.                                                             *)
LEMMA EndStep ==
    ASSUME B!Setting, BackupInv, Distinct', Acknowledged', uploads' \in Seq(Names),
           latest' \in Names \cup {None},
           UNCHANGED <<B!config, running, wake>>,
           B!FailBackup
    PROVE  BackupInv'
<1>1. /\ bpc' = "none" /\ kept' = 0 /\ upload' = None /\ doomed' = {} /\ by' = None
      /\ UNCHANGED <<age, name>>
      /\ spc' \in {"select", spc} /\ armed' \in {TRUE, armed}
  BY DEF B!FailBackup, B!EndBackup, B!Rearm
<1>2. \/ failed' = TRUE /\ promised' = promised
      \/ promised' = 0 /\ failed' = failed
  BY DEF B!FailBackup, B!WriteError
<1>3. B!TypeOK'
  <2>1. faults' \in 0..MaxFaults
    BY DEF BackupInv, B!TypeOK, B!Setting, B!FailBackup, B!MayFail
  <2> QED
    BY <1>1, <1>2, <2>1 DEF BackupInv, B!TypeOK, B!config
<1>4. AtHand' /\ Trimmed'
  BY <1>1 DEF AtHand, Trimmed
<1>5. B!StatusTrue'
  BY <1>2 DEF B!StatusTrue, B!SaysSuccess
<1> QED
  BY <1>3, <1>4, <1>5 DEF BackupInv

(* A backup that is cut off leaves what it has done, and promises nothing. *)
LEMMA StopStep ==
    ASSUME B!Setting, BackupInv, B!Stop
    PROVE  BackupInv'
<1>1. B!TypeOK'
  <2>1. faults' \in 0..MaxFaults
    BY DEF BackupInv, B!TypeOK, B!Setting, B!Stop, B!MayFail
  <2> QED
    BY <2>1 DEF BackupInv, B!TypeOK, B!Stop, B!config
<1>2. AtHand' /\ Trimmed'
  BY DEF AtHand, Trimmed, B!Stop
<1>3. Distinct' /\ Acknowledged' /\ B!StatusTrue'
  BY DEF BackupInv, Distinct, Acknowledged, B!ToSet, B!StatusTrue, B!SaysSuccess,
         B!Last, B!Stop
<1> QED
  BY <1>1, <1>2, <1>3 DEF BackupInv

-----------------------------------------------------------------------------
(* One lemma for each step of a backup.                                    *)
LEMMA SameUploads ==
    ASSUME BackupInv, UNCHANGED <<uploads, latest>>
    PROVE  /\ Distinct' /\ Acknowledged'
           /\ uploads' \in Seq(Names) /\ latest' \in Names \cup {None}
BY DEF BackupInv, B!TypeOK, Distinct, Acknowledged, B!ToSet

(* A backup that begins clears the last error; the status is judged only   *)
(* between backups.                                                        *)
LEMMA AttemptStep ==
    ASSUME B!Setting, BackupInv, B!Attempt
    PROVE  BackupInv'
<1>1. B!TypeOK'
  <2>1. bpc' = "export" /\ failed' = FALSE
    BY DEF B!Attempt
  <2>2. UNCHANGED <<enabled, keep, age, name, promised, uploads, running, wake, armed,
                    spc, by, kept, upload, doomed, faults, latest>>
    BY DEF B!Attempt, B!config, B!scheduler
  <2>3. B!TypeOK
    BY DEF BackupInv
  <2>4. bpc' \in {"none", "attempt", "export", "collect", "upload", "list", "prune"}
        /\ failed' \in BOOLEAN
    BY <2>1
  <2> QED
    BY <2>2, <2>3, <2>4, ZenonT(90) DEF B!TypeOK
<1>2. AtHand' /\ Trimmed' /\ B!StatusTrue'
  BY DEF BackupInv, AtHand, Trimmed, B!StatusTrue, B!Attempt, B!At
<1>3. Distinct' /\ Acknowledged'
  BY SameUploads DEF B!Attempt
<1> QED
  BY <1>1, <1>2, <1>3 DEF BackupInv

(* A new archive has a name that is not in use.                            *)
LEMMA ExportContentStep ==
    ASSUME B!Setting, BackupInv, B!ExportContent
    PROVE  BackupInv'
<1>1. CASE B!FailBackup
  BY <1>1, SameUploads, EndStep DEF B!ExportContent
<1>2. CASE ~B!FailBackup
  <2>1. /\ bpc = "export" /\ bpc' = "collect" /\ upload' \in B!NewNames
        /\ UNCHANGED <<doomed, by, kept, B!state, spc, armed, faults, B!config,
                       uploads, running, wake, latest>>
    BY <1>2 DEF B!ExportContent, B!At, B!Goto
  <2>2. upload' \in Names \ B!ToSet(uploads)
    BY <2>1 DEF B!NewNames
  <2>3. B!TypeOK'
    BY <2>1, <2>2 DEF BackupInv, B!TypeOK, B!state, B!config
  <2>4. AtHand' /\ Trimmed' /\ B!StatusTrue'
    BY <2>1, <2>2 DEF BackupInv, AtHand, Trimmed, B!StatusTrue, B!ToSet
  <2> QED
    BY <2>1, <2>3, <2>4, SameUploads DEF BackupInv
<1> QED
  BY <1>1, <1>2

(* The collection is made before anything is uploaded.                     *)
LEMMA CollectStep ==
    ASSUME B!Setting, BackupInv, B!EnsureCollection
    PROVE  BackupInv'
<1>1. CASE B!FailBackup
  BY <1>1, SameUploads, EndStep DEF B!EnsureCollection
<1>2. CASE ~B!FailBackup
  <2>1. /\ bpc = "collect" /\ bpc' = "upload"
        /\ UNCHANGED <<upload, doomed, by, kept, B!state, spc, armed, faults, B!config,
                       uploads, running, wake, latest>>
    BY <1>2 DEF B!EnsureCollection, B!At, B!Goto
  <2>2. B!TypeOK'
    BY <2>1 DEF BackupInv, B!TypeOK, B!state, B!config
  <2>3. AtHand' /\ Trimmed' /\ B!StatusTrue'
    BY <2>1 DEF BackupInv, AtHand, Trimmed, B!StatusTrue, B!ToSet
  <2> QED
    BY <2>1, <2>2, <2>3, SameUploads DEF BackupInv
<1> QED
  BY <1>1, <1>2

(* An upload that is acknowledged becomes the newest, and one that fails   *)
(* may be there as well.                                                   *)
LEMMA UploadStep ==
    ASSUME B!Setting, BackupInv, B!Upload
    PROVE  BackupInv'
<1>1. uploads \in Seq(Names) /\ Distinct /\ upload \in Names \ B!ToSet(uploads)
  BY DEF BackupInv, B!TypeOK, AtHand, B!Upload, B!At
<1>2. CASE B!FailBackup /\ UNCHANGED <<uploads, latest>>
  BY <1>2, SameUploads, EndStep DEF B!Upload
<1>3. CASE B!FailBackup /\ UNCHANGED latest /\ uploads' = Append(uploads, upload)
  <2>1. uploads' \in Seq(Names) /\ Distinct' /\ Acknowledged'
    BY <1>1, <1>3, AppendNew DEF BackupInv, Acknowledged
  <2> QED
    BY <1>3, <2>1, EndStep DEF BackupInv, B!TypeOK, B!Upload
<1>4. CASE /\ uploads' = Append(uploads, upload) /\ latest' = upload
           /\ B!Goto("list") /\ UNCHANGED <<upload, doomed>>
  <2>1. /\ uploads' \in Seq(Names) /\ Distinct' /\ uploads' # <<>>
        /\ uploads'[Len(uploads')] = upload /\ upload \in B!ToSet(uploads')
    BY <1>1, <1>4, AppendNew
  <2>2. B!TypeOK'
    BY <1>1, <1>4, <2>1 DEF BackupInv, B!TypeOK, B!Upload, B!Goto, B!state, B!config
  <2>3. AtHand' /\ Trimmed' /\ Acknowledged' /\ B!StatusTrue'
    BY <1>4, <2>1 DEF BackupInv, AtHand, Trimmed, Acknowledged, B!StatusTrue, B!Upload,
                      B!At, B!Goto
  <2> QED
    BY <2>1, <2>2, <2>3 DEF BackupInv
<1> QED
  BY <1>2, <1>3, <1>4 DEF B!Upload

(* What is to go is the oldest, and never the one just uploaded.           *)
LEMMA ListBackupsStep ==
    ASSUME B!Setting, BackupInv, B!ListBackups
    PROVE  BackupInv'
<1>1. CASE B!FailBackup
  BY <1>1, SameUploads, EndStep DEF B!ListBackups
<1>2. CASE ~B!FailBackup
  <2>1. /\ bpc = "list" /\ bpc' = "prune" /\ doomed' = B!Beyond(kept)
        /\ UNCHANGED <<upload, by, kept, B!state, spc, armed, faults, B!config,
                       uploads, running, wake, latest>>
    BY <1>2 DEF B!ListBackups, B!At, B!Goto
  <2>2. /\ uploads \in Seq(Names) /\ Len(uploads) \in Nat \ {0} /\ kept \in Nat \ {0}
        /\ \A i \in 1..Len(uploads) : uploads[i] \in Names
    <3>1. uploads \in Seq(Names) /\ uploads # <<>> /\ kept \in Retentions
      BY <2>1 DEF BackupInv, B!TypeOK, AtHand, Trimmed
    <3> QED
      BY <3>1, EmptySeq, ElementOfSeq DEF B!Setting
  <2>3. PICK d \in 0..Len(uploads) - 1 :
          d = IF Len(uploads) > kept THEN Len(uploads) - kept ELSE 0
    <3>1. CASE Len(uploads) > kept
      <4>1. Len(uploads) - kept \in 0..Len(uploads) - 1
        BY <2>2, <3>1
      <4> QED
        BY <3>1, <4>1
    <3>2. CASE ~(Len(uploads) > kept)
      <4>1. 0 \in 0..Len(uploads) - 1
        BY <2>2
      <4> QED
        BY <3>2, <4>1
    <3> QED
      BY <3>1, <3>2
  <2>4. doomed' = First(d)
    <3> DEFINE old == SubSeq(uploads, 1, Len(uploads) - kept)
    <3>1. /\ old \in Seq(Names) /\ Len(old) = d
          /\ \A i \in 1..d : old[i] = uploads[i]
      <4>1. \A i \in 1..Len(uploads) - kept : uploads[i] \in Names
        BY <2>2
      <4>2. /\ old \in Seq(Names)
            /\ Len(old) = IF 1 <= Len(uploads) - kept THEN Len(uploads) - kept - 1 + 1 ELSE 0
            /\ \A i \in 1..Len(uploads) - kept - 1 + 1 : old[i] = uploads[1 + i - 1]
        BY <2>2, <4>1, SubSeqProperties
      <4> QED
        BY <2>2, <2>3, <4>2
    <3>2. DOMAIN old = 1..d
      BY <3>1
    <3> HIDE DEF old
    <3>3. B!ToSet(old) = First(d)
      BY <3>1, <3>2 DEF B!ToSet, First
    <3> QED
      BY <2>1, <3>3 DEF B!Beyond, old
  <2>5. First(d) \subseteq Names
    BY <2>2, <2>3 DEF First
  <2>6. B!TypeOK'
    BY <2>1, <2>4, <2>5 DEF BackupInv, B!TypeOK, B!state, B!config
  <2>7. Trimmed'
    <3>1. /\ doomed' = First(d)' /\ d \in 0..Len(uploads') - 1
          /\ Len(uploads') - d <= kept'
          /\ d # 0 => Len(uploads') - d = kept'
      BY <2>1, <2>2, <2>3, <2>4 DEF First
    <3>2. Trimming(d)'
      BY <3>1 DEF Trimming
    <3>3. kept' \in Retentions
      BY <2>1 DEF BackupInv, Trimmed
    <3> HIDE DEF Trimming
    <3> QED
      BY <2>1, <3>1, <3>2, <3>3 DEF Trimmed
  <2>8. AtHand' /\ B!StatusTrue'
    BY <2>1 DEF BackupInv, AtHand, B!StatusTrue
  <2> QED
    BY <2>1, <2>6, <2>7, <2>8, SameUploads DEF BackupInv
<1> QED
  BY <1>1, <1>2

(* The latest of those to be deleted is the d-th: the others stay first.   *)
LEMMA PruneStep ==
    ASSUME B!Setting, BackupInv, B!Prune
    PROVE  BackupInv'
<1>1. CASE B!FailBackup /\ UNCHANGED uploads
  BY <1>1, SameUploads, EndStep DEF B!Prune
<1>2. ASSUME NEW i \in DOMAIN uploads,
             uploads[i] \in doomed,
             \A j \in i + 1..Len(uploads) : uploads[j] \notin doomed,
             doomed' = doomed \ {uploads[i]},
             uploads' = B!RemoveAt(uploads, i),
             B!Goto("prune"), UNCHANGED upload
      PROVE  BackupInv'
  <2>1. /\ bpc = "prune" /\ bpc' = "prune"
        /\ UNCHANGED <<upload, by, kept, B!state, spc, armed, faults, B!config,
                       running, wake, latest>>
    BY <1>2 DEF B!Prune, B!At, B!Goto
  <2>2. PICK d \in 0..Len(uploads) - 1 : Trimming(d)
    BY <2>1 DEF BackupInv, Trimmed
  <2>3. uploads \in Seq(Names) /\ Distinct /\ DOMAIN uploads = 1..Len(uploads)
    BY DEF BackupInv, B!TypeOK
  <2>4. i = d
    <3>1. PICK m \in 1..d : uploads[m] = uploads[i]
      BY <1>2, <2>2 DEF Trimming, First
    <3>2. m = i
      BY <2>2, <2>3, <3>1 DEF Distinct
    <3>3. d \in DOMAIN uploads /\ uploads[d] \in doomed
      BY <2>2, <2>3, <3>1 DEF Trimming, First
    <3> QED
      BY <1>2, <2>3, <3>1, <3>2, <3>3
  <2>5. /\ uploads' \in Seq(Names) /\ Len(uploads') = Len(uploads) - 1
        /\ \A k \in 1..Len(uploads') :
             uploads'[k] = IF k < d THEN uploads[k] ELSE uploads[k + 1]
        /\ Distinct'
        /\ \A x \in B!ToSet(uploads) : x # uploads[d] => x \in B!ToSet(uploads')
    BY <1>2, <2>3, <2>4, RemoveOne
  <2>6. d \in Nat \ {0} /\ Len(uploads) \in Nat /\ d < Len(uploads)
    BY <1>2, <2>2, <2>3, <2>4
  <2>7. doomed' = First(d - 1)'
    <3>1. \A k \in 1..d - 1 : uploads'[k] = uploads[k] /\ uploads[k] # uploads[d]
      <4> SUFFICES ASSUME NEW k \in 1..d - 1
                   PROVE  uploads'[k] = uploads[k] /\ uploads[k] # uploads[d]
        OBVIOUS
      <4>1. k < d /\ k # d /\ k \in 1..Len(uploads) - 1 /\ k \in 1..Len(uploads)
            /\ d \in 1..Len(uploads)
        BY <2>6
      <4>2. uploads'[k] = uploads[k]
        BY <2>5, <4>1
      <4>3. uploads[k] # uploads[d]
        BY <2>3, <4>1, Zenon DEF Distinct
      <4> QED BY <4>2, <4>3
    <3>2. doomed' = {uploads[k] : k \in 1..d} \ {uploads[d]}
      BY <1>2, <2>2, <2>4 DEF Trimming, First
    <3>3. {uploads[k] : k \in 1..d} \ {uploads[d]} = {uploads[k] : k \in 1..d - 1}
      <4>1. \A k \in 1..d : k = d \/ k \in 1..d - 1
        BY <2>6
      <4>2. d \in 1..d /\ 1..d - 1 \subseteq 1..d
        BY <2>6
      <4> QED BY <3>1, <4>1, <4>2, Zenon
    <3>4. {uploads[k] : k \in 1..d - 1} = {uploads'[k] : k \in 1..d - 1}
      BY <3>1
    <3> QED
      BY <3>2, <3>3, <3>4 DEF First
  <2>8. Trimmed'
    <3>1. Len(uploads) - d = kept
      BY <2>2, <2>6 DEF Trimming
    <3>2. d - 1 \in 0..Len(uploads') - 1 /\ Len(uploads') - (d - 1) = kept'
      BY <2>1, <2>5, <2>6, <3>1
    <3>3. kept' \in Retentions /\ kept' \in Nat
      BY <2>1 DEF BackupInv, Trimmed, B!Setting
    <3>4. Len(uploads') - (d - 1) <= kept'
      BY <3>2, <3>3
    <3> QED
      BY <2>1, <2>7, <3>2, <3>3, <3>4 DEF Trimmed, Trimming
  <2>9. AtHand'
    <3>1. uploads' # <<>> /\ uploads'[Len(uploads')] = uploads[Len(uploads)]
      BY <2>5, <2>6
    <3> QED
      BY <2>1, <3>1 DEF BackupInv, AtHand
  <2>10. Acknowledged'
    <3>1. latest = uploads[Len(uploads)] /\ latest # uploads[d]
      BY <2>1, <2>3, <2>6 DEF BackupInv, AtHand, Distinct
    <3>2. latest \in B!ToSet(uploads)
      BY <2>3, <2>6, <3>1 DEF B!ToSet
    <3> QED
      BY <2>1, <2>5, <3>1, <3>2 DEF Acknowledged
  <2>11. B!TypeOK'
    <3>1. doomed' \subseteq Names
      BY <1>2 DEF BackupInv, B!TypeOK
    <3> QED
      BY <2>1, <2>5, <3>1 DEF BackupInv, B!TypeOK, B!state, B!config
  <2>12. B!StatusTrue'
    BY <2>1 DEF B!StatusTrue
  <2> QED
    BY <2>5, <2>8, <2>9, <2>10, <2>11, <2>12 DEF BackupInv
<1> QED
  BY <1>1, <1>2 DEF B!Prune

(* The status says success when nothing is left to delete.                 *)
LEMMA RecordStep ==
    ASSUME B!Setting, BackupInv, B!RecordSuccess
    PROVE  BackupInv'
<1>1. /\ bpc = "prune" /\ doomed = {} /\ bpc' = "none" /\ kept' = 0 /\ upload' = None
      /\ doomed' = {} /\ by' = None
      /\ spc' \in {"select", spc} /\ armed' \in {TRUE, armed}
      /\ UNCHANGED <<B!config, uploads, running, wake, latest>>
  BY DEF B!RecordSuccess, B!At, B!EndBackup, B!Rearm
<1>2. \/ /\ age' = 0 /\ name' = upload /\ failed' = FALSE
         /\ promised' = kept /\ faults' = faults
      \/ /\ promised' = 0 /\ UNCHANGED <<age, name, failed>>
         /\ faults < MaxFaults /\ faults' = faults + 1
  BY DEF B!RecordSuccess, B!MayFail
<1>3. uploads # <<>> /\ upload = uploads[Len(uploads)] /\ Len(uploads) <= kept
  <2>1. PICK d \in 0..Len(uploads) - 1 : Trimming(d)
    BY <1>1 DEF BackupInv, Trimmed
  <2>2. d = 0
    <3>1. 1 \in 1..d => uploads[1] \in First(d)
      BY DEF First
    <3>2. 1 \notin 1..d
      BY <1>1, <2>1, <3>1 DEF Trimming
    <3> QED
      BY <3>2
  <2>3. Len(uploads) \in Nat /\ uploads \in Seq(Names)
    BY DEF BackupInv, B!TypeOK
  <2> QED
    BY <1>1, <2>1, <2>2, <2>3 DEF BackupInv, AtHand, Trimming
<1>4. B!TypeOK'
  <2>1. age' \in 0..Interval /\ faults' \in 0..MaxFaults
    BY <1>2 DEF BackupInv, B!TypeOK, B!Setting
  <2>2. name' \in Names \cup {None} /\ failed' \in BOOLEAN
        /\ promised' \in Retentions \cup {0}
    BY <1>2 DEF BackupInv, B!TypeOK
  <2>3. spc' \in {"select", "check", "try", "wait"} /\ armed' \in BOOLEAN
    BY <1>1 DEF BackupInv, B!TypeOK
  <2> QED
    BY <1>1, <2>1, <2>2, <2>3 DEF BackupInv, B!TypeOK, B!config
<1>5. B!StatusTrue'
  BY <1>1, <1>2, <1>3 DEF B!StatusTrue, B!SaysSuccess, B!Last
<1>6. AtHand' /\ Trimmed'
  BY <1>1 DEF AtHand, Trimmed
<1> QED
  BY <1>1, <1>4, <1>5, <1>6, SameUploads DEF BackupInv

(* Every step of the scheduler, of a backup, and of the administration.    *)
LEMMA BackupInductive ==
    ASSUME B!Setting
    PROVE  BackupInv /\ [B!Next]_B!vars => BackupInv'
<1> SUFFICES ASSUME BackupInv, [B!Next]_B!vars PROVE BackupInv'
  OBVIOUS
<1>1. CASE B!Configure \/ B!Schedule \/ B!BackupNow \/ B!Start \/ B!Hour
  BY <1>1, ScheduleStep, BeginStep DEF B!Schedule
<1>2. CASE B!Perform
  BY <1>2, AttemptStep, ExportContentStep, CollectStep, UploadStep, ListBackupsStep,
     PruneStep, RecordStep DEF B!Perform
<1>3. CASE B!Stop
  BY <1>3, StopStep
<1>4. CASE UNCHANGED B!vars
  <2>1. UNCHANGED <<uploads, kept, upload, doomed, latest, name, failed, promised, bpc>>
    BY <1>4 DEF B!vars, B!state, B!backup
  <2>2. B!TypeOK'
    <3>1. B!TypeOK
      BY DEF BackupInv
    <3>2. /\ enabled' = enabled /\ keep' = keep /\ age' = age /\ name' = name
          /\ failed' = failed /\ promised' = promised /\ uploads' = uploads
          /\ running' = running /\ wake' = wake /\ armed' = armed /\ spc' = spc
          /\ bpc' = bpc /\ by' = by /\ kept' = kept /\ upload' = upload
          /\ doomed' = doomed /\ faults' = faults /\ latest' = latest
      BY <1>4 DEF B!vars, B!config, B!state, B!scheduler, B!backup
    <3> QED
      BY <3>1, <3>2 DEF B!TypeOK
  <2> QED
    BY <2>1, <2>2, Untouched DEF BackupInv
<1> QED
  BY <1>1, <1>2, <1>3, <1>4 DEF B!Next

(* The latest is never among the doomed, and what is not doomed is what    *)
(* was to be kept.                                                         *)
LEMMA BackupKeeps ==
    ASSUME B!Setting, BackupInv
    PROVE  B!BackupsKept
<1>1. ASSUME doomed # {} PROVE Len(uploads) - B!Cardinality(doomed) = kept
  <2>1. PICK d \in 0..Len(uploads) - 1 : Trimming(d)
    BY <1>1 DEF BackupInv, Trimmed
  <2>2. uploads \in Seq(Names) /\ Distinct /\ Len(uploads) \in Nat
    BY DEF BackupInv, B!TypeOK
  <2>3. d \in 0..Len(uploads) /\ d # 0
    BY <1>1, <2>1, <2>2 DEF Trimming, First
  <2>4. B!Cardinality(First(d)) = d
    BY <2>2, <2>3, FirstCounted
  <2> QED
    BY <2>1, <2>3, <2>4 DEF Trimming
<1> QED
  BY <1>1 DEF BackupInv, Acknowledged, B!BackupsKept, B!LatestKept

-----------------------------------------------------------------------------
(* Over any number of backups, however they fail or are cut off: the last  *)
(* archive the server acknowledged is never deleted, a deletion cut short  *)
(* leaves as many as were to be kept, and the status tells the truth.      *)
THEOREM BackupsSurvive ==
    ASSUME B!Setting
    PROVE  B!Spec => [](B!TypeOK /\ B!BackupsKept)
<1>1. BackupInv => B!TypeOK /\ B!BackupsKept
  BY BackupKeeps DEF BackupInv
<1>2. B!Init => BackupInv
  BY BackupInitially
<1>3. BackupInv /\ [B!Next]_B!vars => BackupInv'
  BY BackupInductive
<1> QED
  BY <1>1, <1>2, <1>3, PTL DEF B!Spec

-----------------------------------------------------------------------------
(* The importer. Where runImport is says how far it has come; the job the  *)
(* administration polls follows it, at most one error behind; and as long  *)
(* as nothing failed every draft it has passed is stored, in order.        *)
Importing == ipc \in {"prepare", "item", "report", "reloaded", "final"}
Over      == ipc \in {"reloaded", "final", "ended"}

Progress ==
    /\ ipc \in {"idle", "prepare"} =>
         item = 1 /\ done = 0 /\ errors = 0 /\ stored = <<>> /\ shown = 0 /\ slip = FALSE
    /\ ipc = "idle" => job = None /\ paths = {}
    /\ ipc = "item" => done = item - 1 /\ slip = FALSE
    /\ ipc = "report" => done = item
    /\ Over => done = I!Items /\ item = I!Items + 1

JobFollows ==
    /\ Importing => job # None
    /\ job # None => job.total = I!Total(batch) /\ job.errors <= errors
    /\ job # None /\ ipc # "ended" => job.status = "running"
    /\ job # None /\ ipc \in {"report", "reloaded"} /\ slip => job.errors < errors
    /\ job # None /\ job.status # "running" => job.done = job.total /\ job.status = I!Outcome

Passed == IF done > Len(batch.media) THEN done - Len(batch.media) ELSE 0

NoneLost ==
    /\ stored \in Seq(I!ToSet(stored)) /\ Len(stored) <= Passed
    /\ errors = 0 => Len(stored) = Passed /\ \A i \in DOMAIN stored : stored[i].draft = i
    /\ errors = 0 /\ Over => shown = Len(stored)

ImportInv ==
    I!TypeOK /\ Progress /\ JobFollows /\ NoneLost /\ I!LinksLead /\ errors <= mishaps

-----------------------------------------------------------------------------
(* A function from 1..n is a sequence.                                     *)
LEMMA FunctionIsSeq ==
    ASSUME NEW n \in Nat, NEW T, NEW t \in [1..n -> T]
    PROVE  t \in Seq(T)
BY SeqDef

-----------------------------------------------------------------------------
(* A set of numbers that is not empty has a least one: of the ranges up to *)
(* them, one has no other below it.                                        *)
LEMMA LeastNumber ==
    ASSUME NEW numbers, numbers \in SUBSET Nat, numbers # {}
    PROVE  \E n \in numbers : \A m \in numbers : n <= m
<1>1. PICK k \in numbers : TRUE
  OBVIOUS
<1> DEFINE S == 0..k
           T == {0..n : n \in {n \in numbers : n <= k}}
<1>2. IsFiniteSet(S)
  BY FS_Interval
<1>3. T \subseteq FiniteSubsetsOf(S) /\ T # {}
  <2>1. ASSUME NEW n \in numbers, n <= k PROVE 0..n \in SUBSET S /\ IsFiniteSet(0..n)
    BY <2>1, FS_Interval
  <2>2. 0..k \in T
    OBVIOUS
  <2> QED BY <2>1, <2>2 DEF FiniteSubsetsOf
<1>4. PICK x \in T : \A y \in T : <<y, x>> \notin StrictSubsetOrdering(S)
  <2> HIDE DEF S, T
  <2> QED BY <1>2, <1>3, FS_StrictSubsetOrderingWellFounded, WFMin
<1>5. PICK n \in numbers : n <= k /\ x = 0..n
  BY <1>4
<1>6. ASSUME NEW m \in numbers PROVE n <= m
  <2> SUFFICES ASSUME m < n PROVE FALSE
    OBVIOUS
  <2>1. 0..m \in T /\ 0..m \in SUBSET S /\ 0..n \in SUBSET S
    BY <1>5
  <2>2. 0..m \subseteq 0..n /\ n \in 0..n /\ n \notin 0..m
    OBVIOUS
  <2>3. <<0..m, 0..n>> \in StrictSubsetOrdering(S)
    BY <2>1, <2>2 DEF StrictSubsetOrdering
  <2> QED BY <2>1, <2>3, <1>4, <1>5
<1> QED BY <1>6

(* Induction: a set of numbers with 0 and every successor has them all.    *)
LEMMA Counting ==
    ASSUME NEW ns, 0 \in ns, \A k \in Nat : k \in ns => k + 1 \in ns
    PROVE  Nat \subseteq ns
<1> SUFFICES ASSUME Nat \ ns # {} PROVE FALSE
  OBVIOUS
<1>1. PICK n \in Nat \ ns : \A m \in Nat \ ns : n <= m
  <2>1. Nat \ ns \in SUBSET Nat
    OBVIOUS
  <2> QED BY <2>1, LeastNumber
<1>2. n # 0 /\ n - 1 \in Nat
  BY <1>1
<1>3. n - 1 \in ns
  BY <1>1, <1>2
<1> QED BY <1>1, <1>2, <1>3

(* Below a bound, a set of numbers that is not empty has a greatest one.   *)
LEMMA GreatestNumber ==
    ASSUME NEW n \in Nat, NEW ns \in SUBSET (1..n), ns # {}
    PROVE  I!Max(ns) \in ns /\ I!Max(ns) \in 1..n /\ \A m \in ns : m <= I!Max(ns)
<1> DEFINE ms == {n - m : m \in ns}
<1>1. ms \in SUBSET Nat
  OBVIOUS
<1>0. ms # {}
  OBVIOUS
<1>2. PICK j \in ms : \A i \in ms : j <= i
  <2> HIDE DEF ms
  <2> QED BY <1>0, <1>1, LeastNumber
<1>3. PICK x \in ns : j = n - x
  BY <1>2
<1>4. ASSUME NEW y \in ns PROVE x >= y
  <2>1. n - y \in ms
    OBVIOUS
  <2>2. n - x <= n - y
    BY <2>1, <1>2, <1>3
  <2> QED BY <2>2
<1>5. \E z \in ns : \A y \in ns : z >= y
  BY <1>4
<1>6. I!Max(ns) \in ns /\ \A y \in ns : I!Max(ns) >= y
  BY <1>5 DEF I!Max
<1> QED BY <1>6

(* What the folds of the library are: a function of the indices gone       *)
(* through, the greatest of them last.                                     *)
Folded(f, n, base, steps) ==
    \A t \in SUBSET (1..n) :
        f[t] = IF t = {} THEN base ELSE steps[I!Max(t)][f[t \ {I!Max(t)}]]

Foldable(k, D, base, steps) == \E f \in [SUBSET (1..k) -> D] : Folded(f, k, base, steps)

(* There is such a function, made for one index after the other.           *)
LEMMA FoldExists ==
    ASSUME NEW n \in Nat, NEW D, NEW base \in D, NEW steps \in [1..n -> [D -> D]]
    PROVE  Foldable(n, D, base, steps)
<1> DEFINE ns == {k \in Nat : k <= n => Foldable(k, D, base, steps)}
<1>1. 0 \in ns
  <2> DEFINE f == [t \in SUBSET (1..0) |-> base]
  <2>1. f \in [SUBSET (1..0) -> D] /\ Folded(f, 0, base, steps)
    BY DEF Folded
  <2> QED BY <2>1 DEF Foldable
<1>2. ASSUME NEW k \in Nat, k \in ns PROVE k + 1 \in ns
  <2> SUFFICES ASSUME k + 1 <= n
               PROVE  Foldable(k + 1, D, base, steps)
    OBVIOUS
  <2>0. Foldable(k, D, base, steps)
    BY <1>2
  <2>1. PICK g \in [SUBSET (1..k) -> D] : Folded(g, k, base, steps)
    BY <2>0 DEF Foldable
  <2> DEFINE f == [t \in SUBSET (1..k + 1) |->
                     IF k + 1 \in t THEN steps[k + 1][g[t \ {k + 1}]] ELSE g[t]]
  <2>2. ASSUME NEW t \in SUBSET (1..k + 1), k + 1 \notin t
        PROVE  t \in SUBSET (1..k)
    BY <2>2
  <2>3. ASSUME NEW t \in SUBSET (1..k + 1)
        PROVE  t \ {k + 1} \in SUBSET (1..k)
    BY <2>2
  <2>4. f \in [SUBSET (1..k + 1) -> D]
    <3>1. steps[k + 1] \in [D -> D]
      OBVIOUS
    <3> QED BY <2>2, <2>3, <3>1
  <2>5. ASSUME NEW t \in SUBSET (1..k + 1)
        PROVE  f[t] = IF t = {} THEN base ELSE steps[I!Max(t)][f[t \ {I!Max(t)}]]
    <3>1. CASE k + 1 \in t
      <4>1. I!Max(t) \in 1..k + 1 /\ \A m \in t : m <= I!Max(t)
        <5>1. k + 1 \in Nat /\ t # {}
          BY <3>1
        <5> QED BY <5>1, GreatestNumber
      <4>2. I!Max(t) = k + 1
        BY <3>1, <4>1
      <4>3. f[t \ {k + 1}] = g[t \ {k + 1}]
        BY <2>3
      <4> QED BY <3>1, <4>2, <4>3
    <3>2. CASE k + 1 \notin t
      <4>1. t \in SUBSET (1..k) /\ f[t] = g[t]
        BY <3>2, <2>2
      <4>2. g[t] = IF t = {} THEN base ELSE steps[I!Max(t)][g[t \ {I!Max(t)}]]
        BY <4>1, <2>1 DEF Folded
      <4>3. f[t \ {I!Max(t)}] = g[t \ {I!Max(t)}]
        BY <3>2
      <4> QED BY <4>1, <4>2, <4>3
    <3> QED BY <3>1, <3>2
  <2> QED BY <2>4, <2>5 DEF Folded, Foldable
<1>3. n \in ns
  <2> HIDE DEF ns
  <2> QED BY <1>1, <1>2, Counting
<1> QED BY <1>3

(* Going through the indices one by one, such a function stays in a set    *)
(* that no step leaves.                                                    *)
LEMMA FoldStays ==
    ASSUME NEW n \in Nat, NEW D, NEW f, f[{}] \in D,
           \A t \in SUBSET (1..n) : t # {} /\ f[t \ {I!Max(t)}] \in D => f[t] \in D
    PROVE  f[1..n] \in D
<1> DEFINE ns == {k \in Nat : k <= n => f[1..k] \in D}
<1>1. 0 \in ns
  <2>1. 1..0 = {}
    OBVIOUS
  <2> QED BY <2>1
<1>2. ASSUME NEW k \in Nat, k \in ns PROVE k + 1 \in ns
  <2> SUFFICES ASSUME k + 1 <= n PROVE f[1..k + 1] \in D
    OBVIOUS
  <2> DEFINE t == 1..k + 1
  <2>1. t \in SUBSET (1..n) /\ t # {} /\ t \in SUBSET (1..k + 1) /\ k + 1 \in t
    OBVIOUS
  <2>2. I!Max(t) \in 1..k + 1 /\ \A m \in t : m <= I!Max(t)
    <3>1. k + 1 \in Nat
      OBVIOUS
    <3> HIDE DEF t
    <3> QED BY <2>1, <3>1, GreatestNumber
  <2>3. I!Max(t) = k + 1
    BY <2>1, <2>2
  <2>4. t \ {k + 1} = 1..k
    OBVIOUS
  <2>0. f[1..k] \in D
    BY <1>2
  <2>5. f[t \ {k + 1}] \in D
    BY <2>0, <2>4, Zenon
  <2>6. f[t] \in D
    <3> HIDE DEF t
    <3> QED BY <2>1, <2>3, <2>5
  <2> QED BY <2>6
<1>3. n \in ns
  <2> HIDE DEF ns
  <2> QED BY <1>1, <1>2, Counting
<1> QED BY <1>3

(* What Importer calls finite, and the number of elements.                 *)
LEMMA ImportCounts ==
    \A S : (I!IsFiniteSet(S) <=> IsFiniteSet(S)) /\ I!Cardinality(S) = Cardinality(S)
<1>1. \A S : I!IsFiniteSet(S) <=> IsFiniteSet(S)
  BY DEF I!IsFiniteSet, IsFiniteSet
<1>2. \A S : I!Cardinality(S) = Cardinality(S)
  BY Zenon DEF I!Cardinality, Cardinality
<1> QED
  BY <1>1, <1>2

(* The characters of a post id, and what addMedia adds to it; Later is one *)
(* turn of its loop, which makes the id longer.                            *)
Letters == STRING \cup {"-", "extra-"} \cup {I!ToString(c) : c \in Nat}
Tries   == [id : Seq(Letters), extra : Nat]

Later(t) == [id |-> t.id \o <<"-", I!ToString(t.extra + 1)>>, extra |-> t.extra + 1]

Length(t) == Len(t.id)

(* A turn of the loop adds two parts to the id.                        *)
LEMMA LaterTry ==
    ASSUME NEW t \in Tries
    PROVE  Later(t) \in Tries /\ Length(t) \in Nat /\ Length(Later(t)) = Length(t) + 2
<1> DEFINE more == <<"-", I!ToString(t.extra + 1)>>
<1>1. t.id \in Seq(Letters) /\ t.extra \in Nat
  BY DEF Tries
<1>2. "-" \in Letters /\ I!ToString(t.extra + 1) \in Letters
  <2>1. t.extra + 1 \in Nat
    BY <1>1
  <2>2. \A c \in Nat : I!ToString(c) \in Letters
    BY Zenon DEF Letters
  <2>3. "-" \in Letters
    <3>1. "-" \in {"-", "extra-"}
      BY Zenon
    <3> QED BY <3>1, Zenon DEF Letters
  <2> QED BY <2>1, <2>2, <2>3, Zenon
<1>3. more \in Seq(Letters) /\ Len(more) = 2
  BY <1>2
<1>4. t.id \o more \in Seq(Letters) /\ Len(t.id \o more) = Len(t.id) + 2
  <2> HIDE DEF more
  <2>1. t.id \o more \in Seq(Letters) /\ Len(t.id \o more) = Len(t.id) + Len(more)
    BY <1>1, <1>3, ConcatProperties, Zenon
  <2> QED BY <2>1, <1>3
<1> QED
  BY <1>1, <1>4 DEF Tries, Later, Length

(* The turns of the loop, one after the other.                             *)
LEMMA TriesExist ==
    ASSUME NEW n \in Nat, NEW start \in Tries
    PROVE  \E f : f = [k \in 0..n |-> IF k = 0 THEN start ELSE Later(f[k - 1])]
<1> DEFINE steps == [k \in 1..n |-> [t \in Tries |-> Later(t)]]
<1>1. steps \in [1..n -> [Tries -> Tries]]
  BY LaterTry
<1>2. Foldable(n, Tries, start, steps)
  <2> HIDE DEF steps
  <2> QED BY <1>1, FoldExists
<1>3. PICK g \in [SUBSET (1..n) -> Tries] : Folded(g, n, start, steps)
  BY <1>2 DEF Foldable
<1> DEFINE f == [k \in 0..n |-> g[1..k]]
<1>4. ASSUME NEW k \in 0..n PROVE f[k] = IF k = 0 THEN start ELSE Later(f[k - 1])
  <2>1. CASE k = 0
    <3>1. 1..0 = {} /\ {} \in SUBSET (1..n)
      OBVIOUS
    <3>2. g[{}] = start
      BY <1>3, <3>1 DEF Folded
    <3> QED BY <2>1, <3>1, <3>2
  <2>2. CASE k # 0
    <3>1. k \in Nat /\ 1..k \in SUBSET (1..k) /\ 1..k # {} /\ k \in 1..k /\ k - 1 \in 0..n
      BY <2>2
    <3>2. I!Max(1..k) \in 1..k /\ \A m \in 1..k : m <= I!Max(1..k)
      BY <3>1, GreatestNumber
    <3>3. I!Max(1..k) = k
      BY <3>1, <3>2
    <3>4. (1..k) \ {k} = 1..k - 1
      BY <3>1
    <3>5. 1..k \in SUBSET (1..n) /\ 1..k - 1 \in SUBSET (1..n) /\ k \in 1..n
      BY <2>2
    <3>6. g[1..k] = steps[k][g[1..k - 1]]
      <4> HIDE DEF steps
      <4> QED BY <1>3, <3>1, <3>3, <3>4, <3>5 DEF Folded
    <3>7. g[1..k - 1] \in Tries
      BY <3>5
    <3>8. steps[k][g[1..k - 1]] = Later(g[1..k - 1])
      BY <3>5, <3>7
    <3>9. f[k] = g[1..k] /\ f[k - 1] = g[1..k - 1]
      BY <3>1
    <3> QED BY <2>2, <3>6, <3>8, <3>9
  <2> QED BY <2>1, <2>2
<1>5. f = [k \in 0..n |-> IF k = 0 THEN start ELSE Later(f[k - 1])]
  BY <1>4
<1> QED
  BY <1>5

(* The loop of addMedia ends with an id that no media has: its ids all     *)
(* differ, since each is longer, and one more of them than there are media *)
(* cannot all be taken.                                                    *)
LEMMA UntakenFound ==
    ASSUME NEW taken, IsFiniteSet(taken), NEW start \in Tries
    PROVE  I!Untaken(start, taken) \in Tries /\ I!Untaken(start, taken).id \notin taken
<1> DEFINE n == Cardinality(taken)
           try == CHOOSE f : f = [k \in 0..n |-> IF k = 0 THEN start ELSE Later(f[k - 1])]
           fresh == CHOOSE k \in DOMAIN try : /\ try[k].id \notin taken
                                              /\ \A j \in 0..k - 1 : try[j].id \in taken
<1>1. n \in Nat
  BY FS_CardinalityType
<1>2. try = [k \in 0..n |-> IF k = 0 THEN start ELSE Later(try[k - 1])]
  <2> HIDE DEF n
  <2>1. \E f : f = [k \in 0..n |-> IF k = 0 THEN start ELSE Later(f[k - 1])]
    BY <1>1, TriesExist
  <2> QED BY <2>1
<1>3. I!Untaken(start, taken) = try[fresh]
  BY ImportCounts DEF I!Untaken, Later
<1> HIDE DEF try, fresh
<1>0. Length(start) \in Nat
  BY LaterTry
<1>4. ASSUME NEW k \in 0..n
      PROVE  try[k] \in Tries /\ Length(try[k]) = Length(start) + 2 * k
  <2> DEFINE Reached(j) == try[j] \in Tries /\ Length(try[j]) = Length(start) + 2 * j
             ks == {j \in Nat : j <= n => Reached(j)}
  <2>1. Reached(0)
    <3>1. try[0] = start
      BY <1>1, <1>2
    <3> QED BY <3>1, <1>0
  <2>2. ASSUME NEW j \in Nat, j + 1 <= n, Reached(j) PROVE Reached(j + 1)
    <3>1. try[j + 1] = Later(try[j])
      <4> HIDE DEF n
      <4>1. j + 1 \in 0..n /\ j + 1 # 0 /\ (j + 1) - 1 = j
        BY <1>1, <2>2
      <4> QED BY <1>2, <4>1
    <3>2. Later(try[j]) \in Tries /\ Length(Later(try[j])) = Length(try[j]) + 2
      BY <2>2, LaterTry
    <3>3. \A a, b, c \in Int : b = a + 2 * j /\ c = b + 2 => c = a + 2 * (j + 1)
      OBVIOUS
    <3>4. Length(try[j]) \in Int /\ Length(Later(try[j])) \in Int
      BY <2>2, <3>2, LaterTry
    <3>5. Length(Later(try[j])) = Length(start) + 2 * (j + 1)
      BY <2>2, <3>2, <3>3, <3>4, <1>0
    <3> QED BY <3>1, <3>2, <3>5
  <2>3. Reached(k)
    <3> HIDE DEF Reached, n
    <3>1. 0 \in ks
      BY <2>1
    <3>2. ASSUME NEW j \in Nat, j \in ks PROVE j + 1 \in ks
      BY <3>2, <2>2, <1>1
    <3>3. Nat \subseteq ks
      <4> HIDE DEF ks
      <4> QED BY <3>1, <3>2, Counting
    <3> QED BY <3>3, <1>1
  <2> QED BY <2>3
<1>5. \E k \in 0..n : try[k].id \notin taken
  <2> SUFFICES ASSUME \A k \in 0..n : try[k].id \in taken PROVE FALSE
    OBVIOUS
  <2> DEFINE ids == [k \in 0..n |-> try[k].id]
  <2>1. ids \in [0..n -> taken]
    OBVIOUS
  <2>2. IsFiniteSet(0..n) /\ Cardinality(0..n) = n + 1
    <3> HIDE DEF n
    <3> QED BY <1>1, FS_Interval
  <2>3. PICK x \in 0..n, y \in 0..n : x # y /\ ids[x] = ids[y]
    <3>1. Cardinality(taken) < Cardinality(0..n)
      BY <1>1, <2>2
    <3> HIDE DEF ids, n
    <3> QED BY <2>1, <2>2, <3>1, FS_PigeonHole
  <2>4. Length(start) + 2 * x = Length(start) + 2 * y
    BY <1>4, <2>3 DEF Length
  <2>5. x \in Int /\ y \in Int
    <3> HIDE DEF n
    <3> QED BY <1>1
  <2>6. \A a \in Int : a + 2 * x = a + 2 * y => x = y
    BY <2>5
  <2> QED BY <2>3, <2>4, <2>6, <1>0
<1>6. fresh \in 0..n /\ try[fresh].id \notin taken
  <2> DEFINE free == {k \in 0..n : try[k].id \notin taken}
  <2>1. PICK k \in free : \A m \in free : k <= m
    <3>1. free \in SUBSET Nat /\ free # {}
      BY <1>1, <1>5
    <3> HIDE DEF free
    <3> QED BY <3>1, LeastNumber
  <2>2. ASSUME NEW j \in 0..k - 1 PROVE try[j].id \in taken
    <3> HIDE DEF n
    <3> QED BY <1>1, <2>1
  <2>3. DOMAIN try = 0..n
    BY <1>2
  <2> QED
    <3> HIDE DEF n
    <3> QED BY <2>1, <2>2, <2>3 DEF fresh
<1> QED
  BY <1>3, <1>4, <1>6

(* Batches whose media have different placeholders, of the URLs in urls.   *)
Charts(urls) == UNION {[S -> Seq(Letters)] : S \in SUBSET urls}

Apart(media) == \A i, j \in DOMAIN media : media[i] = media[j] => i = j

Sound(urls) ==
    {b \in [media : Seq(Seq(Letters)), placeholder : Charts(urls), extra : Nat] :
        Apart(b.media)}

(* A URL gets its placeholder,                                             *)
LEMMA EntryAdded ==
    ASSUME NEW urls, NEW f \in Charts(urls), NEW url \in urls, NEW id \in Seq(Letters)
    PROVE  [x \in DOMAIN f \cup {url} |-> IF x = url THEN id ELSE f[x]] \in Charts(urls)
<1>1. PICK S \in SUBSET urls : f \in [S -> Seq(Letters)]
  BY DEF Charts
<1>2. [x \in DOMAIN f \cup {url} |-> IF x = url THEN id ELSE f[x]]
         \in [S \cup {url} -> Seq(Letters)]
  BY <1>1
<1> QED
  BY <1>2 DEF Charts

(* and the media an id that none has;                                      *)
LEMMA MediaAdded ==
    ASSUME NEW media \in Seq(Seq(Letters)), Apart(media),
           NEW id \in Seq(Letters), id \notin I!ToSet(media)
    PROVE  Append(media, id) \in Seq(Seq(Letters)) /\ Apart(Append(media, id))
<1> DEFINE more == Append(media, id)
<1>1. /\ more \in Seq(Seq(Letters)) /\ Len(media) \in Nat /\ DOMAIN media = 1..Len(media)
      /\ DOMAIN more = 1..Len(media) + 1 /\ more[Len(media) + 1] = id
      /\ \A i \in 1..Len(media) : more[i] = media[i]
  OBVIOUS
<1>2. \A i \in 1..Len(media) : media[i] # id
  BY <1>1 DEF I!ToSet
<1>3. Apart(more)
  <2> DEFINE n == Len(media)
  <2>1. \A i, j \in 1..n : media[i] = media[j] => i = j
    BY <1>1 DEF Apart
  <2> SUFFICES ASSUME NEW i \in 1..n + 1, NEW j \in 1..n + 1, more[i] = more[j]
               PROVE  i = j
    BY <1>1 DEF Apart
  <2> HIDE DEF more, n
  <2>2. n \in Nat /\ more[n + 1] = id /\ \A k \in 1..n : more[k] = media[k] /\ media[k] # id
    BY <1>1, <1>2 DEF n
  <2>3. \A k \in 1..n + 1 : k = n + 1 \/ k \in 1..n
    BY <2>2
  <2> QED BY <2>1, <2>2, <2>3
<1> QED
  BY <1>1, <1>3

(* as many ids as media are taken.                                         *)
LEMMA MediaFinite ==
    ASSUME NEW media \in Seq(Seq(Letters)), Apart(media)
    PROVE  IsFiniteSet(I!ToSet(media)) /\ Cardinality(I!ToSet(media)) = Len(media)
<1> DEFINE f == [i \in 1..Len(media) |-> media[i]]
<1>1. Len(media) \in Nat /\ DOMAIN media = 1..Len(media)
  OBVIOUS
<1>2. f \in [1..Len(media) -> I!ToSet(media)]
  BY <1>1 DEF I!ToSet
<1>3. \A i, j \in 1..Len(media) : f[i] = f[j] => i = j
  BY <1>1 DEF Apart
<1>4. \A m \in I!ToSet(media) : \E i \in 1..Len(media) : f[i] = m
  <2>1. I!ToSet(media) = {media[i] : i \in 1..Len(media)}
    BY <1>1 DEF I!ToSet
  <2>2. \A i \in 1..Len(media) : f[i] = media[i]
    OBVIOUS
  <2> QED BY <2>1, <2>2, Zenon
<1>5. f \in Bijection(1..Len(media), I!ToSet(media))
  <2> HIDE DEF f
  <2> QED BY <1>2, <1>3, <1>4 DEF Bijection, Injection, Surjection, IsInjective
<1>6. ExistsBijection(1..Len(media), I!ToSet(media))
  <2> HIDE DEF f
  <2> QED BY <1>5 DEF ExistsBijection
<1>7. IsFiniteSet(1..Len(media)) /\ Cardinality(1..Len(media)) = Len(media)
  <2>1. ASSUME NEW n \in Nat PROVE IsFiniteSet(1..n) /\ Cardinality(1..n) = n
    BY FS_Interval
  <2> QED BY <1>1, <2>1, Zenon
<1> QED
  BY <1>6, <1>7, FS_Bijection

(* A batch of sound parts is sound.                                        *)
LEMMA SoundBatch ==
    ASSUME NEW urls, NEW ids \in Seq(Seq(Letters)), Apart(ids), NEW chart \in Charts(urls),
           NEW n \in Nat
    PROVE  [media |-> ids, placeholder |-> chart, extra |-> n] \in Sound(urls)
<1> DEFINE r == [media |-> ids, placeholder |-> chart, extra |-> n]
           All == Seq(Seq(Letters))
<1>1. r \in [media : All, placeholder : Charts(urls), extra : Nat]
  <2> HIDE DEF All
  <2> QED BY DEF All
<1>2. Apart(r.media)
  OBVIOUS
<1> QED
  <2> HIDE DEF r
  <2> QED BY <1>1, <1>2, Zenon DEF Sound

(* addMedia keeps the placeholders apart, for a URL it knows, an id of the *)
(* file, one that is taken, and none.                                      *)
LEMMA MediaStay ==
    ASSUME NEW urls, NEW b \in Sound(urls), NEW url \in urls, NEW id \in Seq(Letters)
    PROVE  I!AddMedia(b, url, id) \in Sound(urls)
<1> DEFINE first == IF id # <<>> THEN [id |-> id, extra |-> b.extra]
                    ELSE [id |-> <<"extra-">> \o <<I!ToString(b.extra + 1)>>,
                          extra |-> b.extra + 1]
           u == I!Untaken(first, I!ToSet(b.media))
           chart == [x \in DOMAIN b.placeholder \cup {url} |->
                       IF x = url THEN u.id ELSE b.placeholder[x]]
<1>1. /\ b.media \in Seq(Seq(Letters)) /\ b.placeholder \in Charts(urls)
      /\ b.extra \in Nat /\ Apart(b.media)
  BY DEF Sound
<1>2. <<"extra-">> \o <<I!ToString(b.extra + 1)>> \in Seq(Letters)
  <2>1. b.extra + 1 \in Nat
    BY <1>1
  <2>2. \A c \in Nat : I!ToString(c) \in Letters
    BY Zenon DEF Letters
  <2>3. "extra-" \in Letters
    <3>1. "extra-" \in {"-", "extra-"}
      BY Zenon
    <3> QED BY <3>1, Zenon DEF Letters
  <2>4. I!ToString(b.extra + 1) \in Letters
    BY <2>1, <2>2, Zenon
  <2>5. \A x, y \in Letters : <<x>> \o <<y>> \in Seq(Letters)
    OBVIOUS
  <2> QED BY <2>3, <2>4, <2>5, Zenon
<1>3. first \in Tries
  BY <1>1, <1>2 DEF Tries
<1>4. u \in Tries /\ u.id \notin I!ToSet(b.media)
  <2> HIDE DEF first
  <2> QED BY <1>1, <1>3, MediaFinite, UntakenFound
<1>5. u.id \in Seq(Letters) /\ u.extra \in Nat
  BY <1>4 DEF Tries
<1>6. Append(b.media, u.id) \in Seq(Seq(Letters)) /\ Apart(Append(b.media, u.id))
  <2> HIDE DEF u
  <2> QED BY <1>1, <1>4, <1>5, MediaAdded
<1>7. chart \in Charts(urls)
  <2> HIDE DEF u
  <2> QED BY <1>1, <1>5, EntryAdded
<1>8. I!AddMedia(b, url, id)
         \in {b, [media |-> Append(b.media, u.id), placeholder |-> chart, extra |-> u.extra]}
  BY DEF I!AddMedia
<1> DEFINE new == [media |-> Append(b.media, u.id), placeholder |-> chart, extra |-> u.extra]
<1>9. new \in Sound(urls)
  <2> HIDE DEF u, chart
  <2> QED BY <1>5, <1>6, <1>7, SoundBatch
<1> QED
  BY <1>8, <1>9

(* What a fold does with the last of the indices it has gone through.      *)
FoldStep(g, t, n, D, base, steps) ==
    IF t = {} THEN g[t] = base
    ELSE LET m == I!Max(t)
         IN m \in 1..n /\ g[t \ {m}] \in D /\ g[t] = steps[m][g[t \ {m}]]

(* A fold whose steps stay in a set is in it all the way.                  *)
LEMMA FoldSteps ==
    ASSUME NEW n \in Nat, NEW D, NEW base \in D, NEW steps \in [1..n -> [D -> D]]
    PROVE  \E g \in [SUBSET (1..n) -> D] :
              \A t \in SUBSET (1..n) : FoldStep(g, t, n, D, base, steps)
<1>1. PICK g \in [SUBSET (1..n) -> D] : Folded(g, n, base, steps)
  BY FoldExists DEF Foldable
<1>2. ASSUME NEW t \in SUBSET (1..n) PROVE FoldStep(g, t, n, D, base, steps)
  <2>1. CASE t = {}
    BY <1>1, <2>1 DEF Folded, FoldStep
  <2>2. CASE t # {}
    <3>1. I!Max(t) \in 1..n
      BY <2>2, GreatestNumber
    <3>2. g[t \ {I!Max(t)}] \in D
      OBVIOUS
    <3> QED BY <1>1, <2>2, <3>1, <3>2 DEF Folded, FoldStep
  <2> QED BY <2>1, <2>2
<1> QED BY <1>2

(* An id of the file is an id.                                             *)
LEMMA LettersSeq == Seq(STRING) \subseteq Seq(Letters)
<1>1. STRING \subseteq Letters
  BY Zenon DEF Letters
<1> DEFINE S == STRING
<1>2. ASSUME NEW s \in Seq(S) PROVE s \in Seq(Letters)
  <2> HIDE DEF S
  <2>1. S \subseteq Letters
    BY <1>1 DEF S
  <2>2. Len(s) \in Nat /\ s \in [1..Len(s) -> S]
    BY ElementOfSeq
  <2> QED BY <2>1, <2>2, SeqDef
<1> QED BY <1>2

(* Before the first item there is nothing to be told apart.                *)
LEMMA NothingSound == \A urls : I!NoMedia \in Sound(urls)
<1> SUFFICES ASSUME NEW urls PROVE I!NoMedia \in Sound(urls)
  OBVIOUS
<1>1. <<>> \in Seq(Seq(Letters)) /\ Apart(<<>>)
  BY DEF Apart
<1>2. <<>> \in Charts(urls)
  <2>1. <<>> \in [{} -> Seq(Letters)] /\ {} \in SUBSET urls
    OBVIOUS
  <2> QED BY <2>1 DEF Charts
<1> QED BY <1>1, <1>2, SoundBatch DEF I!NoMedia

(* After the attachments, the URLs a draft shows and all drafts, the       *)
(* placeholders are still apart: each fold starts with a sound batch, and  *)
(* its steps keep it so.                                                   *)
LEMMA AttachedSound ==
    ASSUME I!Setting, NEW e \in Exports, NEW urls,
           \A i \in DOMAIN e.attachments : e.attachments[i].url \in urls
    PROVE  I!Attached(e) \in Sound(urls)
<1> DEFINE n == Len(e.attachments)
           at == e.attachments
<1>0. n \in Nat /\ DOMAIN at = 1..n
  BY DEF I!Setting
<1>1. \A b \in Sound(urls), i \in 1..n : I!AddMedia(b, at[i].url, at[i].id) \in Sound(urls)
  <2>1. \A i \in 1..n : at[i].id \in Seq(Letters)
    <3>1. \A i \in 1..n : at[i].id \in Seq(STRING)
      BY <1>0 DEF I!Setting
    <3>2. Seq(STRING) \subseteq Seq(Letters)
      BY LettersSeq
    <3> QED BY <3>1, <3>2
  <2> QED BY <1>0, <2>1, MediaStay
<1>2. I!NoMedia \in Sound(urls)
  BY NothingSound
<1> DEFINE f == CHOOSE h : h = [t \in SUBSET (1..n) |->
                                  IF t = {} THEN I!NoMedia
                                  ELSE I!AddMedia(h[t \ {I!Max(t)}], at[I!Max(t)].url,
                                                  at[I!Max(t)].id)]
           steps == [i \in 1..n |-> [b \in Sound(urls) |-> I!AddMedia(b, at[i].url, at[i].id)]]
<1>3. steps \in [1..n -> [Sound(urls) -> Sound(urls)]]
  BY <1>1
<1>4. \E g : g = [t \in SUBSET (1..n) |->
                    IF t = {} THEN I!NoMedia
                    ELSE I!AddMedia(g[t \ {I!Max(t)}], at[I!Max(t)].url, at[I!Max(t)].id)]
  <2>1. PICK g \in [SUBSET (1..n) -> Sound(urls)] :
            \A t \in SUBSET (1..n) : FoldStep(g, t, n, Sound(urls), I!NoMedia, steps)
    <3> HIDE DEF n, steps
    <3> QED BY <1>0, <1>2, <1>3, FoldSteps
  <2>2. ASSUME NEW t \in SUBSET (1..n)
        PROVE  g[t] = IF t = {} THEN I!NoMedia
                      ELSE I!AddMedia(g[t \ {I!Max(t)}], at[I!Max(t)].url, at[I!Max(t)].id)
    BY <2>1 DEF FoldStep
  <2>3. g = [t \in SUBSET (1..n) |->
               IF t = {} THEN I!NoMedia
               ELSE I!AddMedia(g[t \ {I!Max(t)}], at[I!Max(t)].url, at[I!Max(t)].id)]
    <3> HIDE DEF n
    <3> QED BY <2>2
  <2> QED BY <2>3
<1>5. f = [t \in SUBSET (1..n) |->
             IF t = {} THEN I!NoMedia
             ELSE I!AddMedia(f[t \ {I!Max(t)}], at[I!Max(t)].url, at[I!Max(t)].id)]
  BY <1>4
<1>6. f[1..n] \in Sound(urls)
  <2>1. {} \in SUBSET (1..n)
    OBVIOUS
  <2> HIDE DEF f, n
  <2>2. f[{}] \in Sound(urls)
    BY <1>5, <1>2, <2>1
  <2>3. ASSUME NEW t \in SUBSET (1..n), t # {}, f[t \ {I!Max(t)}] \in Sound(urls)
        PROVE  f[t] \in Sound(urls)
    <3>1. I!Max(t) \in 1..n
      BY <1>0, <2>3, GreatestNumber
    <3> QED BY <1>1, <1>5, <2>3, <3>1
  <2> QED BY <1>0, <2>2, <2>3, FoldStays
<1>7. I!Attached(e) = (CHOOSE h : h = [t \in SUBSET DOMAIN at |->
          IF t = {} THEN I!NoMedia
          ELSE I!AddMedia(h[t \ {I!Max(t)}], at[I!Max(t)].url, at[I!Max(t)].id)])[DOMAIN at]
  BY DEF I!Attached, I!FoldLeft, I!MapThenFoldSet
<1> QED
  BY <1>0, <1>6, <1>7

(* The URLs that a draft shows are gone through in some order.             *)
LEMMA ShownSound ==
    ASSUME NEW us, IsFiniteSet(us), NEW urls, us \subseteq urls, NEW base \in Sound(urls)
    PROVE  I!Shown(base, us) \in Sound(urls)
<1> DEFINE s == I!SetToSeq(us)
           n == Cardinality(us)
<1>01. n \in Nat /\ ExistsBijection(1..n, us)
  BY FS_CardinalityType
<1>02. s \in [1..n -> us]
  <2>1. \E g \in [1..n -> us] : I!IsInjective(g)
    <3> HIDE DEF n
    <3> QED BY <1>01 DEF ExistsBijection, Bijection, Injection, IsInjective, I!IsInjective
  <2> QED BY <2>1, ImportCounts DEF I!SetToSeq
<1>0. n \in Nat /\ DOMAIN s = 1..n
  BY <1>01, <1>02
<1> HIDE DEF s
<1>1. \A b \in Sound(urls), i \in 1..n : I!AddMedia(b, s[i], <<>>) \in Sound(urls)
  <2>1. <<>> \in Seq(Letters)
    OBVIOUS
  <2>2. \A i \in 1..n : s[i] \in urls
    <3> HIDE DEF n
    <3> QED BY <1>02
  <2> QED BY <2>1, <2>2, MediaStay
<1>2. base \in Sound(urls)
  OBVIOUS
<1> DEFINE f == CHOOSE h : h = [t \in SUBSET (1..n) |->
                                  IF t = {} THEN base
                                  ELSE I!AddMedia(h[t \ {I!Max(t)}], s[I!Max(t)], <<>>)]
           steps == [i \in 1..n |-> [b \in Sound(urls) |-> I!AddMedia(b, s[i], <<>>)]]
<1>3. steps \in [1..n -> [Sound(urls) -> Sound(urls)]]
  BY <1>1
<1>4. \E g : g = [t \in SUBSET (1..n) |->
                    IF t = {} THEN base
                    ELSE I!AddMedia(g[t \ {I!Max(t)}], s[I!Max(t)], <<>>)]
  <2>1. PICK g \in [SUBSET (1..n) -> Sound(urls)] :
            \A t \in SUBSET (1..n) : FoldStep(g, t, n, Sound(urls), base, steps)
    <3> HIDE DEF n, steps
    <3> QED BY <1>0, <1>2, <1>3, FoldSteps
  <2>2. ASSUME NEW t \in SUBSET (1..n)
        PROVE  g[t] = IF t = {} THEN base
                      ELSE I!AddMedia(g[t \ {I!Max(t)}], s[I!Max(t)], <<>>)
    BY <2>1 DEF FoldStep
  <2>3. g = [t \in SUBSET (1..n) |->
               IF t = {} THEN base
               ELSE I!AddMedia(g[t \ {I!Max(t)}], s[I!Max(t)], <<>>)]
    <3> HIDE DEF n
    <3> QED BY <2>2
  <2> QED BY <2>3
<1>5. f = [t \in SUBSET (1..n) |->
             IF t = {} THEN base
             ELSE I!AddMedia(f[t \ {I!Max(t)}], s[I!Max(t)], <<>>)]
  BY <1>4
<1>6. f[1..n] \in Sound(urls)
  <2>1. {} \in SUBSET (1..n)
    OBVIOUS
  <2> HIDE DEF f, n
  <2>2. f[{}] \in Sound(urls)
    BY <1>5, <1>2, <2>1
  <2>3. ASSUME NEW t \in SUBSET (1..n), t # {}, f[t \ {I!Max(t)}] \in Sound(urls)
        PROVE  f[t] \in Sound(urls)
    <3>1. I!Max(t) \in 1..n
      BY <1>0, <2>3, GreatestNumber
    <3> QED BY <1>1, <1>5, <2>3, <3>1
  <2> QED BY <1>0, <2>2, <2>3, FoldStays
<1>7. I!Shown(base, us) = (CHOOSE h : h = [t \in SUBSET DOMAIN s |->
          IF t = {} THEN base ELSE I!AddMedia(h[t \ {I!Max(t)}], s[I!Max(t)], <<>>)])[DOMAIN s]
  BY DEF I!Shown, I!FoldLeft, I!MapThenFoldSet, s
<1> QED
  BY <1>0, <1>6, <1>7

(* The drafts come after the attachments.                                  *)
LEMMA AllSound ==
    ASSUME I!Setting, NEW e \in Exports
    PROVE  \E urls : I!AllMedia(e) \in Sound(urls)
<1> DEFINE urls == {e.attachments[i].url : i \in DOMAIN e.attachments}
                       \cup UNION {e.drafts[i] : i \in DOMAIN e.drafts}
           n == Len(e.drafts)
           s == e.drafts
<1>0. n \in Nat /\ DOMAIN s = 1..n
  BY DEF I!Setting
<1>1. \A b \in Sound(urls), i \in 1..n : I!Shown(b, s[i]) \in Sound(urls)
  <2>1. \A i \in 1..n : IsFiniteSet(s[i])
    BY <1>0, ImportCounts DEF I!Setting
  <2>2. \A i \in 1..n : s[i] \subseteq urls
    BY <1>0
  <2> HIDE DEF urls, n, s
  <2> QED BY <2>1, <2>2, ShownSound
<1>2. I!Attached(e) \in Sound(urls)
  <2>1. \A i \in DOMAIN e.attachments : e.attachments[i].url \in urls
    OBVIOUS
  <2> HIDE DEF urls
  <2> QED BY <2>1, AttachedSound
<1> HIDE DEF urls
<1> DEFINE f == CHOOSE h : h = [t \in SUBSET (1..n) |->
                                  IF t = {} THEN I!Attached(e)
                                  ELSE I!Shown(h[t \ {I!Max(t)}], s[I!Max(t)])]
           steps == [i \in 1..n |-> [b \in Sound(urls) |-> I!Shown(b, s[i])]]
<1>3. steps \in [1..n -> [Sound(urls) -> Sound(urls)]]
  BY <1>1
<1>4. \E g : g = [t \in SUBSET (1..n) |->
                    IF t = {} THEN I!Attached(e)
                    ELSE I!Shown(g[t \ {I!Max(t)}], s[I!Max(t)])]
  <2>1. PICK g \in [SUBSET (1..n) -> Sound(urls)] :
            \A t \in SUBSET (1..n) : FoldStep(g, t, n, Sound(urls), I!Attached(e), steps)
    <3> HIDE DEF n, steps
    <3> QED BY <1>0, <1>2, <1>3, FoldSteps
  <2>2. ASSUME NEW t \in SUBSET (1..n)
        PROVE  g[t] = IF t = {} THEN I!Attached(e)
                      ELSE I!Shown(g[t \ {I!Max(t)}], s[I!Max(t)])
    BY <2>1 DEF FoldStep
  <2>3. g = [t \in SUBSET (1..n) |->
               IF t = {} THEN I!Attached(e)
               ELSE I!Shown(g[t \ {I!Max(t)}], s[I!Max(t)])]
    <3> HIDE DEF n
    <3> QED BY <2>2
  <2> QED BY <2>3
<1>5. f = [t \in SUBSET (1..n) |->
             IF t = {} THEN I!Attached(e)
             ELSE I!Shown(f[t \ {I!Max(t)}], s[I!Max(t)])]
  BY <1>4
<1>6. f[1..n] \in Sound(urls)
  <2>1. {} \in SUBSET (1..n)
    OBVIOUS
  <2> HIDE DEF f, n
  <2>2. f[{}] \in Sound(urls)
    BY <1>5, <1>2, <2>1
  <2>3. ASSUME NEW t \in SUBSET (1..n), t # {}, f[t \ {I!Max(t)}] \in Sound(urls)
        PROVE  f[t] \in Sound(urls)
    <3>1. I!Max(t) \in 1..n
      BY <1>0, <2>3, GreatestNumber
    <3> QED BY <1>1, <1>5, <2>3, <3>1
  <2> QED BY <1>0, <2>2, <2>3, FoldStays
<1>7. I!AllMedia(e) = (CHOOSE h : h = [t \in SUBSET DOMAIN s |->
          IF t = {} THEN I!Attached(e) ELSE I!Shown(h[t \ {I!Max(t)}], s[I!Max(t)])])[DOMAIN s]
  BY DEF I!AllMedia, I!FoldLeft, I!MapThenFoldSet
<1> QED
  BY <1>0, <1>6, <1>7

(* So they are in the batch that is imported.                              *)
LEMMA BatchSound ==
    ASSUME I!Setting, NEW e \in Exports
    PROVE  /\ I!BuildBatch(e).media \in Seq(Seq(Letters))
           /\ Apart(I!BuildBatch(e).media)
<1>1. PICK urls : I!AllMedia(e) \in Sound(urls)
  BY AllSound
<1>2. I!BuildBatch(e).media = I!AllMedia(e).media
  BY DEF I!BuildBatch
<1>3. I!AllMedia(e).media \in Seq(Seq(Letters)) /\ Apart(I!AllMedia(e).media)
  BY <1>1 DEF Sound
<1> QED BY <1>2, <1>3

-----------------------------------------------------------------------------
(* The drafts of a batch are those of the file.                            *)
LEMMA DraftsCounted ==
    ASSUME I!Setting, NEW e \in Exports
    PROVE  /\ Len(I!BuildBatch(e).drafts) = Len(e.drafts)
           /\ DOMAIN I!BuildBatch(e).drafts = 1..Len(e.drafts)
<1> DEFINE d == I!BuildBatch(e).drafts
           n == Len(e.drafts)
<1>1. n \in Nat /\ DOMAIN e.drafts = 1..n
  BY DEF I!Setting
<1>2. DOMAIN d = DOMAIN e.drafts /\ d = [i \in DOMAIN d |-> d[i]]
  BY DEF I!BuildBatch
<1> HIDE DEF d, n
<1>3. d \in [1..n -> {d[i] : i \in 1..n}]
  BY <1>1, <1>2
<1>4. d \in Seq({d[i] : i \in 1..n})
  BY <1>1, <1>3, FunctionIsSeq
<1>5. Len(d) = n /\ DOMAIN d = 1..n
  BY <1>1, <1>2, <1>4
<1> QED
  BY <1>5 DEF d, n

(* What is imported is so many media and so many drafts.                   *)
LEMMA BatchCounted ==
    ASSUME I!Setting, NEW b \in I!Batches
    PROVE  /\ b.media \in Seq(Seq(Letters)) /\ Len(b.media) \in Nat
           /\ DOMAIN b.media = 1..Len(b.media)
           /\ Len(b.drafts) \in Nat /\ DOMAIN b.drafts = 1..Len(b.drafts)
           /\ Len(b.media) + Len(b.drafts) \in Nat
           /\ I!Total(b) \in Nat \ {0}
           /\ Len(b.media) + Len(b.drafts) <= I!Total(b)
<1>1. /\ b.media \in Seq(Seq(Letters)) /\ Len(b.drafts) \in Nat
      /\ DOMAIN b.drafts = 1..Len(b.drafts)
  <2>1. CASE b = I!NoBatch
    BY <2>1 DEF I!NoBatch
  <2>2. ASSUME NEW e \in Exports, b = I!BuildBatch(e)
        PROVE  <1>1
    BY <2>2, DraftsCounted, BatchSound DEF I!Setting
  <2> QED
    BY <2>1, <2>2 DEF I!Batches
<1>2. Len(b.media) \in Nat /\ DOMAIN b.media = 1..Len(b.media)
  BY <1>1
<1>3. \A m, n \in Nat : m + n \in Nat /\ m + n <= IF m + n = 0 THEN 1 ELSE m + n
  OBVIOUS
<1>4. I!Total(b) = IF Len(b.media) + Len(b.drafts) = 0 THEN 1
                   ELSE Len(b.media) + Len(b.drafts)
  BY DEF I!Total
<1>5. \A n \in Nat : (IF n = 0 THEN 1 ELSE n) \in Nat \ {0}
  OBVIOUS
<1> QED
  BY <1>1, <1>2, <1>3, <1>4, <1>5, Zenon

(* No job, no batch.                                                       *)
LEMMA NoneImported ==
    ASSUME I!Setting, I!Init
    PROVE  ImportInv
<1>1. batch \in I!Batches /\ I!Items = 0
  BY DEF I!Init, I!Items, I!NoBatch, I!Batches
<1>2. stored = <<>> /\ stored \in Seq(I!ToSet(stored)) /\ Len(stored) = 0 /\ DOMAIN stored = {}
  BY DEF I!Init
<1>3. I!TypeOK
  <2>1. /\ item \in 1..I!Items + 1 /\ done \in 0..I!Items /\ shown \in 0..Len(stored)
        /\ Len(stored) <= Len(batch.drafts)
    BY <1>1, <1>2 DEF I!Init, I!NoBatch
  <2>2. errors \in 0..MaxMishaps /\ mishaps \in 0..MaxMishaps
    BY DEF I!Init, I!Setting
  <2>3. /\ pluginUploads \in [Tokens -> Exports \cup {None}]
        /\ job \in I!Jobs \cup {None} /\ job = None /\ ipc \in I!PCs
        /\ paths \subseteq I!ToSet(batch.media)
        /\ slip \in BOOLEAN /\ unheard \in BOOLEAN
    BY DEF I!Init, I!PCs
  <2> QED
    BY <1>1, <2>1, <2>2, <2>3 DEF I!TypeOK
<1>4. Progress /\ JobFollows /\ I!LinksLead
  BY <1>2 DEF I!Init, Progress, Over, JobFollows, Importing, I!LinksLead
<1>5. NoneLost
  BY <1>1, <1>2 DEF I!Init, I!NoBatch, NoneLost, Passed, Over
<1> QED
  BY <1>3, <1>4, <1>5 DEF ImportInv, I!Init

(* An upload is no import yet.                                             *)
LEMMA InspectStep ==
    ASSUME I!Setting, ImportInv, NEW k \in Tokens, NEW e \in Exports, I!Inspect(k, e)
    PROVE  ImportInv'
<1>1. /\ pluginUploads' \in [Tokens -> Exports \cup {None}]
      /\ UNCHANGED <<job, ipc, batch, item, done, errors, paths, slip, stored, shown,
                     mishaps, unheard>>
  BY DEF ImportInv, I!TypeOK, I!Inspect, I!import
<1>2. I!Items' = I!Items
  BY <1>1 DEF I!Items
<1>3. I!TypeOK'
  <2>1. I!TypeOK
    BY DEF ImportInv
  <2> QED
    BY <1>1, <1>2, <2>1 DEF I!TypeOK
<1>4. Progress' /\ JobFollows' /\ NoneLost' /\ I!LinksLead'
  BY <1>1, <1>2 DEF ImportInv, Progress, Over, JobFollows, Importing, I!Outcome, NoneLost,
                    Passed, I!LinksLead
<1> QED
  BY <1>1, <1>3, <1>4 DEF ImportInv

(* A job begins with the batch it counts.                                  *)
LEMMA ImportStep ==
    ASSUME I!Setting, ImportInv, NEW k \in Tokens, I!Import(k)
    PROVE  ImportInv'
<1>1. batch' \in I!Batches
  BY DEF ImportInv, I!TypeOK, I!Import, I!Batches
<1>2. /\ ipc = "idle" /\ ipc' = "prepare"
      /\ job' = [status |-> "running", total |-> I!Total(batch'), done |-> 0, errors |-> 0]
      /\ UNCHANGED <<pluginUploads, item, done, errors, paths, slip, stored, shown,
                     mishaps, unheard>>
  BY DEF I!Import
<1>3. /\ item = 1 /\ done = 0 /\ errors = 0 /\ stored = <<>> /\ shown = 0 /\ slip = FALSE
      /\ paths = {} /\ DOMAIN stored = {} /\ Len(stored) = 0
  BY <1>2 DEF ImportInv, Progress
<1>4. I!Items' \in Nat /\ I!Total(batch') \in Nat \ {0} /\ Len(batch'.drafts) \in Nat
      /\ Len(batch'.media) \in Nat
  BY <1>1, BatchCounted DEF I!Items
<1>5. job' \in I!Jobs /\ job'.total = I!Total(batch)' /\ job'.done <= job'.total
      /\ job'.errors = 0 /\ job'.status = "running" /\ job' # None
  <2>1. I!Total(batch)' = I!Total(batch')
    BY DEF I!Total
  <2>2. /\ job'.total = I!Total(batch') /\ job'.done = 0 /\ job'.errors = 0
        /\ job'.status = "running"
    BY <1>2
  <2>3. job' \in I!Jobs
    BY <1>2, <1>4 DEF I!Jobs
  <2>4. job' # None
    BY <2>3 DEF I!Setting
  <2>5. 0 <= job'.total
    BY <1>4, <2>2
  <2> QED
    BY <2>1, <2>2, <2>3, <2>4, <2>5
<1>6. I!TypeOK'
  <2>1. /\ item' \in 1..I!Items' + 1 /\ done' \in 0..I!Items' /\ shown' \in 0..Len(stored')
        /\ Len(stored') <= Len(batch'.drafts)
    <3>1. item' = 1 /\ done' = 0 /\ shown' = 0 /\ Len(stored') = 0
      BY <1>2, <1>3
    <3>2. \A n \in Nat : 1 \in 1..n + 1 /\ 0 \in 0..n /\ 0 <= n /\ 0 \in 0..0
      OBVIOUS
    <3> QED
      BY <1>4, <3>1, <3>2, Zenon
  <2>2. ipc' \in I!PCs /\ paths' \subseteq I!ToSet(batch'.media) /\ job'.errors <= MaxMishaps
    BY <1>2, <1>3, <1>5 DEF I!PCs, I!Setting
  <2> QED
    BY <1>1, <1>2, <1>5, <2>1, <2>2 DEF ImportInv, I!TypeOK
<1>7. Progress' /\ JobFollows' /\ I!LinksLead'
  BY <1>2, <1>3, <1>5 DEF Progress, Over, JobFollows, Importing, I!LinksLead
<1>8. NoneLost'
  BY <1>2, <1>3, <1>4 DEF ImportInv, NoneLost, Passed, Over
<1> QED
  BY <1>2, <1>6, <1>7, <1>8 DEF ImportInv

-----------------------------------------------------------------------------
(* What an update does to a job that is running: it counts no further than *)
(* the total, and to the total when it says so.                            *)
Request(status, total, d, e) ==
    [status |-> status, total |-> total, done |-> d, error |-> e]

(* What an update makes of the fields of the job.                          *)
LEMMA UpdatedFields ==
    ASSUME NEW j, NEW status, NEW total, NEW d, NEW e, NEW u,
           u = I!Updated(j, Request(status, total, d, e))
    PROVE  /\ u.status = IF status # I!Unsaid THEN status ELSE j.status
           /\ u.total = IF total > 0 THEN total ELSE j.total
           /\ u.done = IF d > u.total THEN u.total ELSE IF d > 0 THEN d ELSE j.done
           /\ u.errors = IF e THEN j.errors + 1 ELSE j.errors
           /\ u = [status |-> u.status, total |-> u.total, done |-> u.done,
                   errors |-> u.errors]
BY DEF I!Updated, Request

(* Updates keep the job within its total.                                  *)
LEMMA UpdateCounts ==
    ASSUME NEW j \in I!Jobs, NEW total \in Nat \ {0}, j.total = total, j.done <= total,
           NEW d \in 0..total, NEW e \in BOOLEAN,
           NEW status \in {I!Unsaid, "running", "completed", "completed_with_errors"},
           NEW u, u = I!Updated(j, Request(status, total, d, e))
    PROVE  /\ u \in I!Jobs /\ u.total = total /\ u.done <= total
           /\ u.errors = j.errors + (IF e THEN 1 ELSE 0)
           /\ u.status = IF status = I!Unsaid THEN j.status ELSE status
           /\ d = total => u.done = total
<1>1. /\ u.status = IF status # I!Unsaid THEN status ELSE j.status
      /\ u.total = IF total > 0 THEN total ELSE j.total
      /\ u.done = IF d > u.total THEN u.total ELSE IF d > 0 THEN d ELSE j.done
      /\ u.errors = IF e THEN j.errors + 1 ELSE j.errors
      /\ u = [status |-> u.status, total |-> u.total, done |-> u.done, errors |-> u.errors]
  BY UpdatedFields
<1>2. /\ j.errors \in Nat /\ j.done \in Nat
      /\ j.status \in {"running", "completed", "completed_with_errors"}
  BY DEF I!Jobs
<1>3. u.total = total
  BY <1>1
<1>4. u.done \in Nat /\ u.done <= total
  BY <1>1, <1>2, <1>3
<1>5. d = total => u.done = total
  BY <1>1, <1>3
<1>6. u.errors \in Nat /\ u.errors = j.errors + (IF e THEN 1 ELSE 0)
  BY <1>1, <1>2
<1>7. u.status \in {"running", "completed", "completed_with_errors"}
  BY <1>1, <1>2
<1>8. u \in I!Jobs
  BY <1>1, <1>3, <1>4, <1>6, <1>7, Zenon DEF I!Jobs
<1> QED
  BY <1>1, <1>3, <1>4, <1>5, <1>6, <1>8

(* After a report the job still runs; it has counted the error, or not     *)
(* heard of it.                                                            *)
LEMMA Reported ==
    ASSUME I!Setting, ImportInv, Importing, NEW e \in BOOLEAN, I!Send(I!Report(e))
    PROVE  /\ job' \in I!Jobs /\ job' # None /\ job'.status = "running"
           /\ job'.total = I!Total(batch) /\ job'.done <= job'.total
           /\ job'.errors <= job.errors + (IF e THEN 1 ELSE 0)
           /\ mishaps' \in 0..MaxMishaps /\ mishaps' >= mishaps /\ unheard' \in BOOLEAN
<1>1. /\ job \in I!Jobs /\ job # None /\ job.status = "running" /\ job.done <= job.total
      /\ job.total = I!Total(batch) /\ job.errors \in Nat
  BY DEF ImportInv, I!TypeOK, JobFollows, Importing, I!Jobs
<1>2. I!Total(batch) \in Nat \ {0} /\ done \in 0..I!Total(batch)
  <2>1. I!Items \in Nat /\ I!Total(batch) \in Nat \ {0} /\ I!Items <= I!Total(batch)
    BY BatchCounted DEF ImportInv, I!TypeOK, I!Items
  <2> QED
    BY <2>1 DEF ImportInv, I!TypeOK
<1>3. mishaps \in 0..MaxMishaps /\ MaxMishaps \in Nat /\ unheard \in BOOLEAN
  BY DEF ImportInv, I!TypeOK, I!Setting
<1>4. CASE job' = I!Updated(job, I!Report(e)) /\ UNCHANGED <<mishaps, unheard>>
  <2>1. /\ job' \in I!Jobs /\ job'.status = "running" /\ job'.total = I!Total(batch)
        /\ job'.done <= job'.total
        /\ job'.errors = job.errors + (IF e THEN 1 ELSE 0)
    <3>1. job' = I!Updated(job, Request(I!Unsaid, I!Total(batch), done, e))
      BY <1>4 DEF I!Report, Request
    <3>2. PICK total \in Nat \ {0} : total = I!Total(batch)
      BY <1>2
    <3>3. done \in 0..total /\ job.total = total /\ job.done <= total /\ job \in I!Jobs
      BY <1>1, <1>2, <3>2
    <3>4. /\ job' \in I!Jobs /\ job'.total = total /\ job'.done <= total
          /\ job'.errors = job.errors + (IF e THEN 1 ELSE 0)
          /\ job'.status = IF I!Unsaid = I!Unsaid THEN job.status ELSE I!Unsaid
      BY <3>1, <3>2, <3>3, UpdateCounts
    <3> QED
      BY <1>1, <3>2, <3>4
  <2>2. job' # None
    BY <2>1 DEF I!Setting
  <2> QED
    BY <1>1, <1>3, <1>4, <2>1, <2>2
<1>5. CASE I!Mishap /\ unheard' = (I!Report(e).status # I!Unsaid) /\ UNCHANGED job
  <2>1. /\ job' = job /\ mishaps < MaxMishaps /\ mishaps' = mishaps + 1
        /\ unheard' \in BOOLEAN
    BY <1>5 DEF I!Mishap
  <2>2. job.errors <= job.errors + (IF e THEN 1 ELSE 0)
    BY <1>1
  <2> QED
    BY <1>1, <1>3, <2>1, <2>2
<1> QED
  BY <1>4, <1>5 DEF I!Send

(* A report gives the job the counters as they are, unless it is lost.     *)
LEMMA ReportStep ==
    ASSUME I!Setting, ImportInv, I!Prepare \/ I!ReportItem \/ I!ReportReload
    PROVE  ImportInv'
<1>1. /\ Importing /\ ipc \in {"prepare", "report", "reloaded"}
      /\ ipc = "prepare" => ipc' = "item" /\ item' = item
      /\ ipc = "report" => ipc' = "item" /\ item' = item + 1
      /\ ipc = "reloaded" => ipc' = "final" /\ item' = item
      /\ slip' \in {FALSE, slip}
      /\ ipc' = "item" => slip' = FALSE
      /\ UNCHANGED <<pluginUploads, batch, done, errors, paths, stored, shown>>
  BY DEF I!Prepare, I!ReportItem, I!ReportReload, I!Goto, I!import, Importing, ImportInv,
         Progress
<1>2. \E e \in BOOLEAN : I!Send(I!Report(e)) /\ (e => slip /\ ipc # "prepare")
  BY DEF I!Prepare, I!ReportItem, I!ReportReload, ImportInv, I!TypeOK
<1>3. /\ job' \in I!Jobs /\ job' # None /\ job'.status = "running"
      /\ job'.total = I!Total(batch) /\ job'.done <= job'.total
      /\ mishaps' \in 0..MaxMishaps /\ mishaps' >= mishaps /\ unheard' \in BOOLEAN
      /\ job'.errors <= errors
  <2>1. PICK e \in BOOLEAN : I!Send(I!Report(e)) /\ (e => slip /\ ipc # "prepare")
    BY <1>2
  <2>2. /\ job' \in I!Jobs /\ job' # None /\ job'.status = "running"
        /\ job'.total = I!Total(batch) /\ job'.done <= job'.total
        /\ mishaps' \in 0..MaxMishaps /\ mishaps' >= mishaps /\ unheard' \in BOOLEAN
        /\ job'.errors <= job.errors + (IF e THEN 1 ELSE 0)
    BY <1>1, <2>1, Reported
  <2>3. /\ job.errors \in Nat /\ job'.errors \in Nat /\ errors \in Nat
        /\ job.errors <= errors /\ (e => job.errors < errors)
    BY <1>1, <2>1, <2>2 DEF ImportInv, I!TypeOK, JobFollows, I!Jobs
  <2> QED
    BY <2>2, <2>3
<1>4. I!Items' = I!Items /\ I!Total(batch)' = I!Total(batch)
  BY <1>1 DEF I!Items, I!Total
<1>5. item' \in 1..I!Items' + 1
  <2>1. I!Items \in Nat /\ item \in 1..I!Items + 1 /\ done \in 0..I!Items
    BY BatchCounted DEF ImportInv, I!TypeOK, I!Items
  <2>2. ipc = "report" => item = done
    BY DEF ImportInv, Progress
  <2> QED
    BY <1>1, <1>4, <2>1, <2>2
<1>6. I!TypeOK'
  <2>1. ipc' \in I!PCs /\ slip' \in BOOLEAN
    BY <1>1 DEF I!PCs, ImportInv, I!TypeOK
  <2>2. job'.errors <= MaxMishaps
    BY <1>3 DEF ImportInv, I!TypeOK, I!Jobs, I!Setting
  <2> QED
    BY <1>1, <1>3, <1>4, <1>5, <2>1, <2>2 DEF ImportInv, I!TypeOK
<1>7. Progress'
  <2>1. item \in Nat /\ done \in Nat
    BY BatchCounted DEF ImportInv, I!TypeOK, I!Items
  <2>2. /\ ipc = "prepare" => item = 1 /\ done = 0
        /\ ipc = "report" => item = done
        /\ ipc = "reloaded" => done = I!Items /\ item = I!Items + 1
    BY DEF ImportInv, Progress, Over
  <2> QED
    BY <1>1, <1>4, <2>1, <2>2 DEF Progress, Over
<1>8. JobFollows'
  BY <1>1, <1>3, <1>4 DEF JobFollows
<1>9. NoneLost' /\ I!LinksLead'
  BY <1>1 DEF ImportInv, NoneLost, Passed, Over, I!LinksLead
<1> QED
  BY <1>1, <1>3, <1>6, <1>7, <1>8, <1>9 DEF ImportInv, I!TypeOK

(* The last report is the only one with a status.                          *)
LEMMA FinishStep ==
    ASSUME I!Setting, ImportInv, I!Finish
    PROVE  ImportInv'
<1>1. /\ ipc = "final" /\ ipc' = "ended"
      /\ UNCHANGED <<pluginUploads, batch, item, done, errors, paths, slip, stored, shown>>
  BY DEF I!Finish, I!Goto, I!import
<1>2. I!Items' = I!Items /\ I!Total(batch)' = I!Total(batch) /\ I!Outcome' = I!Outcome
  BY <1>1 DEF I!Items, I!Total, I!Outcome
<1>3. PICK total \in Nat \ {0} : total = I!Total(batch)
  BY BatchCounted DEF ImportInv, I!TypeOK
<1>4. /\ job \in I!Jobs /\ job # None /\ job.status = "running" /\ job.done <= total
      /\ job.total = total /\ job.errors \in Nat /\ job.errors <= errors
  BY <1>1, <1>3 DEF ImportInv, I!TypeOK, JobFollows, Importing, I!Jobs
<1>5. /\ job' \in I!Jobs /\ job' # None /\ job'.total = total /\ job'.done <= total
      /\ job'.errors = job.errors
      /\ job'.status # "running" => job'.done = total /\ job'.status = I!Outcome
      /\ mishaps' \in 0..MaxMishaps /\ mishaps' >= mishaps /\ unheard' \in BOOLEAN
  <2>1. mishaps \in 0..MaxMishaps /\ MaxMishaps \in Nat /\ unheard \in BOOLEAN
    BY DEF ImportInv, I!TypeOK, I!Setting
  <2>2. CASE /\ job' = I!Updated(job, Request(I!Outcome, I!Total(batch), I!Total(batch),
                                              FALSE))
             /\ UNCHANGED <<mishaps, unheard>>
    <3>1. I!Outcome \in {"completed", "completed_with_errors"}
      BY DEF I!Outcome
    <3>2. I!Outcome # I!Unsaid /\ total \in 0..total
      <4>1. I!Outcome # I!Unsaid
        BY <3>1, Zenon DEF I!Unsaid
      <4> QED
        BY <4>1
    <3>3. PICK status \in {I!Unsaid, "running", "completed", "completed_with_errors"},
               e \in BOOLEAN : status = I!Outcome /\ e = FALSE
      BY <3>1
    <3>4. /\ job' \in I!Jobs /\ job'.total = total /\ job'.done = total
          /\ job'.errors = job.errors /\ job'.status = I!Outcome
      <4>1. job' = I!Updated(job, Request(status, total, total, e))
        BY <1>3, <2>2, <3>3, Zenon
      <4>2. /\ job' \in I!Jobs /\ job'.total = total
            /\ job'.errors = job.errors + (IF e THEN 1 ELSE 0)
            /\ job'.status = IF status = I!Unsaid THEN job.status ELSE status
            /\ job'.done = total
        BY <1>4, <3>2, <4>1, UpdateCounts
      <4> QED
        BY <1>4, <3>2, <3>3, <4>2
    <3>5. job' # None
      BY <3>4 DEF I!Setting
    <3>6. total <= total /\ mishaps' = mishaps /\ unheard' = unheard
      BY <2>2
    <3> QED
      BY <2>1, <3>4, <3>5, <3>6
  <2>3. CASE /\ job' = job /\ unheard' \in BOOLEAN
             /\ mishaps < MaxMishaps /\ mishaps' = mishaps + 1
    BY <1>4, <2>1, <2>3
  <2> QED
    BY <2>2, <2>3 DEF I!Finish, I!Send, I!Mishap, Request
<1>6. I!TypeOK'
  <2>1. job'.errors <= MaxMishaps /\ ipc' \in I!PCs
    BY <1>1, <1>4, <1>5 DEF ImportInv, I!TypeOK, I!PCs
  <2> QED
    BY <1>1, <1>2, <1>5, <2>1 DEF ImportInv, I!TypeOK
<1>7. Progress'
  BY <1>1, <1>2 DEF ImportInv, Progress, Over
<1>8. JobFollows'
  BY <1>1, <1>2, <1>3, <1>4, <1>5 DEF JobFollows, Importing
<1>9. NoneLost' /\ I!LinksLead'
  BY <1>1 DEF ImportInv, NoneLost, Passed, Over, I!LinksLead
<1> QED
  BY <1>1, <1>5, <1>6, <1>7, <1>8, <1>9 DEF ImportInv, I!TypeOK

(* What is common to the items: a failure is counted when it happens.      *)
ItemOver ==
    /\ ipc = "item" /\ ipc' = "report" /\ done' = done + 1
    /\ \/ slip' = FALSE /\ errors' = errors /\ mishaps' = mishaps
       \/ slip' = TRUE /\ errors' = errors + 1 /\ mishaps' = mishaps + 1 /\ mishaps < MaxMishaps
    /\ UNCHANGED <<pluginUploads, job, batch, item, shown, unheard>>

(* An item is counted once, and an error with it.                          *)
LEMMA ItemStep ==
    ASSUME I!Setting, ImportInv, ItemOver, item <= I!Items,
           paths' \subseteq I!ToSet(batch.media), NoneLost', I!LinksLead',
           Len(stored') \in Nat, shown \in 0..Len(stored')
    PROVE  ImportInv'
<1>1. /\ I!Items \in Nat /\ Len(batch.media) \in Nat /\ Len(batch.drafts) \in Nat
      /\ I!Items = Len(batch.media) + Len(batch.drafts)
  BY BatchCounted DEF ImportInv, I!TypeOK, I!Items
<1>2. I!Items' = I!Items /\ I!Total(batch)' = I!Total(batch)
  BY DEF ItemOver, I!Items, I!Total
<1>3. done = item - 1 /\ item \in 1..I!Items /\ done' = item
  <2>1. done = item - 1 /\ item \in 1..I!Items + 1
    BY DEF ImportInv, I!TypeOK, Progress, ItemOver
  <2>2. done' = done + 1 /\ I!Items \in Nat
    BY <1>1 DEF ItemOver
  <2> QED
    BY <2>1, <2>2
<1>4. /\ errors \in Nat /\ errors' \in Nat /\ errors <= errors' /\ errors' <= mishaps'
      /\ mishaps' \in 0..MaxMishaps /\ errors' <= MaxMishaps
      /\ slip' => errors < errors'
  BY DEF ImportInv, I!TypeOK, ItemOver, I!Setting
<1>5. Len(stored') <= Len(batch.drafts)
  <2>1. Passed' = IF item > Len(batch.media) THEN item - Len(batch.media) ELSE 0
    BY <1>3 DEF Passed, ItemOver
  <2>2. Len(stored') <= Passed'
    BY DEF NoneLost
  <2>3. \A m, n \in Nat : \A i \in 1..m + n :
          (IF i > m THEN i - m ELSE 0) \in Nat /\ (IF i > m THEN i - m ELSE 0) <= n
    OBVIOUS
  <2>4. Passed' \in Nat /\ Passed' <= Len(batch.drafts)
    BY <1>1, <1>3, <2>1, <2>3, Zenon
  <2>5. \A k, m, n \in Nat : k <= m /\ m <= n => k <= n
    OBVIOUS
  <2> QED
    BY <1>1, <2>2, <2>4, <2>5
<1>6. I!TypeOK'
  <2>1. /\ item' \in 1..I!Items' + 1 /\ done' \in 0..I!Items' /\ errors' \in 0..MaxMishaps
        /\ slip' \in BOOLEAN /\ ipc' \in I!PCs
    <3>1. \A n \in Nat : \A i \in 1..n : i \in 1..n + 1 /\ i \in 0..n
      OBVIOUS
    <3>2. item' = item /\ ipc' = "report" /\ slip' \in BOOLEAN
      BY DEF ItemOver
    <3>3. errors' \in 0..MaxMishaps
      BY <1>4 DEF I!Setting
    <3> QED
      BY <1>1, <1>2, <1>3, <3>1, <3>2, <3>3, Zenon DEF I!PCs
  <2> QED
    BY <1>4, <1>5, <2>1 DEF ImportInv, I!TypeOK, ItemOver
<1>7. Progress'
  BY <1>3 DEF Progress, Over, ItemOver
<1>8. JobFollows'
  <2>1. job # None => job.errors \in Nat /\ job.errors <= errors /\ job.status = "running"
    BY DEF ImportInv, I!TypeOK, JobFollows, ItemOver, I!Jobs
  <2>2. job # None /\ job.total = I!Total(batch)
    BY DEF ImportInv, JobFollows, Importing, ItemOver
  <2>3. job.errors <= errors' /\ slip' => job.errors < errors'
    BY <1>4, <2>1, <2>2
  <2> QED
    BY <1>2, <1>4, <2>1, <2>2, <2>3 DEF JobFollows, ItemOver
<1> QED
  BY <1>4, <1>6, <1>7, <1>8 DEF ImportInv

(* Media adds its path, and no draft.                                      *)
LEMMA SaveMediaStep ==
    ASSUME I!Setting, ImportInv, I!SaveMedia
    PROVE  ImportInv'
<1>1. ItemOver /\ stored' = stored /\ paths' = paths \cup {batch.media[item]}
      /\ item <= Len(batch.media)
  BY DEF I!SaveMedia, I!Done, I!Mishap, I!Goto, ItemOver, ImportInv, I!TypeOK
<1>2. /\ Len(batch.media) \in Nat /\ Len(batch.drafts) \in Nat /\ I!Items \in Nat
      /\ DOMAIN batch.media = 1..Len(batch.media)
      /\ I!Items = Len(batch.media) + Len(batch.drafts)
  BY BatchCounted DEF ImportInv, I!TypeOK, I!Items
<1>3. item \in 1..Len(batch.media) /\ done = item - 1 /\ item <= I!Items
  <2>1. done = item - 1 /\ item \in 1..I!Items + 1
    BY <1>1 DEF ImportInv, I!TypeOK, Progress, ItemOver
  <2>2. PICK m \in Nat, k \in Nat : m = Len(batch.media) /\ k = I!Items /\ m <= k
    <3>1. \A m, n \in Nat : m <= m + n
      OBVIOUS
    <3> QED
      BY <1>2, <3>1, Zenon
  <2>3. item \in 1..k + 1 /\ item <= m
    BY <1>1, <2>1, <2>2
  <2>4. item \in 1..m /\ item <= k
    BY <2>2, <2>3
  <2> QED
    BY <2>1, <2>2, <2>4
<1>4. paths' \subseteq I!ToSet(batch.media)
  BY <1>1, <1>2, <1>3 DEF ImportInv, I!TypeOK, I!ToSet
<1>5. NoneLost'
  <2>1. Passed' = Passed
    <3>1. done' = done + 1 /\ batch' = batch
      BY <1>1 DEF ItemOver
    <3>2. ~(done > Len(batch.media)) /\ ~(done + 1 > Len(batch.media))
      BY <1>2, <1>3
    <3>3. ~(done' > Len(batch'.media))
      BY <3>1, <3>2
    <3> QED BY <3>2, <3>3 DEF Passed
  <2>2. errors' = 0 => errors = 0
    BY <1>1 DEF ImportInv, I!TypeOK, ItemOver, I!Setting
  <2> QED
    BY <1>1, <2>1, <2>2 DEF ImportInv, NoneLost, ItemOver, I!ToSet, Over
<1>6. I!LinksLead'
  BY <1>1 DEF ImportInv, I!LinksLead, ItemOver
<1>7. Len(stored') \in Nat /\ shown \in 0..Len(stored')
  BY <1>1 DEF ImportInv, I!TypeOK, NoneLost
<1> QED
  BY <1>1, <1>3, <1>4, <1>5, <1>6, <1>7, ItemStep

(* A sequence of anything, with something more at its end.                 *)
LEMMA AppendAny ==
    ASSUME NEW s, s \in Seq(I!ToSet(s)), NEW x, NEW t, t = Append(s, x)
    PROVE  /\ t \in Seq(I!ToSet(t)) /\ Len(s) \in Nat /\ Len(t) = Len(s) + 1
           /\ \A i \in 1..Len(s) : t[i] = s[i]
           /\ t[Len(s) + 1] = x
           /\ DOMAIN s = 1..Len(s) /\ DOMAIN t = 1..Len(s) + 1
<1> DEFINE S == I!ToSet(s) \cup {x}
<1>1. s \in Seq(S)
  BY SeqMonotonic
<1>2. /\ t \in Seq(S) /\ Len(s) \in Nat /\ Len(t) = Len(s) + 1
      /\ \A i \in 1..Len(s) : t[i] = s[i]
      /\ t[Len(s) + 1] = x
  <2> HIDE DEF S
  <2>1. x \in S
    BY DEF S
  <2> QED
    BY <1>1, <2>1, AppendProperties, LenProperties
<1>3. DOMAIN s = 1..Len(s) /\ DOMAIN t = 1..Len(t)
  BY <1>1, <1>2, LenProperties
<1>4. t \in Seq(I!ToSet(t))
  <2>1. t \in [1..Len(t) -> I!ToSet(t)]
    <3>1. t = [i \in 1..Len(t) |-> t[i]]
      BY <1>2, <1>3, LenProperties
    <3> QED
      BY <1>3, <3>1 DEF I!ToSet
  <2>2. Len(t) \in Nat
    BY <1>2
  <2> QED
    BY <2>1, <2>2, FunctionIsSeq
<1> QED
  BY <1>2, <1>3, <1>4

(* Whatever entry a link begins with, it leads to its own media, or that   *)
(* entry is another one.                                                   *)
LEMMA LinkLeads ==
    ASSUME I!Setting, ImportInv, NEW refs, NEW links \in I!Replaced(refs),
           NEW q \in DOMAIN links
    PROVE  \/ links[q] = [to |-> q, rest |-> <<>>]
           \/ \E p \in I!ToSet(batch.media) \ {q} : I!IsPrefix(p, q)
<1>1. q \in refs /\ links[q] \in I!LeadsTo(q)
  BY DEF I!Replaced
<1>2. PICK p \in paths :
        I!IsPrefix(p, q) /\ links[q] = [to |-> p, rest |-> SubSeq(q, Len(p) + 1, Len(q))]
  BY <1>1 DEF I!LeadsTo
<1>3. p \in I!ToSet(batch.media)
  BY DEF ImportInv, I!TypeOK
<1>4. CASE p = q
  <2>1. batch.media \in Seq(Seq(Letters)) /\ DOMAIN batch.media = 1..Len(batch.media)
    BY BatchCounted DEF ImportInv, I!TypeOK
  <2>2. p \in Seq(Letters)
    BY <1>3, <2>1, ElementOfSeq DEF I!ToSet
  <2>3. Len(p) \in Nat
    BY <2>2, LenProperties
  <2>4. SubSeq(p, Len(p) + 1, Len(p)) = <<>>
    <3>1. Len(p) + 1 \in Int /\ Len(p) \in Int /\ Len(p) < Len(p) + 1
      BY <2>3
    <3> QED
      BY <3>1, SubSeqEmpty
  <2> QED
    BY <1>2, <1>4, <2>4
<1> QED
  BY <1>2, <1>3, <1>4

(* A draft is stored after those before it.                                *)
LEMMA SaveDraftStep ==
    ASSUME I!Setting, ImportInv, I!SaveDraft
    PROVE  ImportInv'
<1>1. PICK links \in I!Replaced(batch.drafts[I!Draft]) :
        \/ /\ stored' = Append(stored, [draft |-> I!Draft, links |-> links])
           /\ I!Done(FALSE) /\ mishaps' = mishaps
        \/ /\ stored' \in {Append(stored, [draft |-> I!Draft, links |-> links]), stored}
           /\ I!Done(TRUE) /\ I!Mishap
  BY DEF I!SaveDraft
<1> DEFINE saved == [draft |-> I!Draft, links |-> links]
<1>2. ItemOver /\ paths' = paths /\ item \in Len(batch.media) + 1..I!Items
  BY <1>1 DEF I!SaveDraft, I!Done, I!Mishap, I!Goto, ItemOver, ImportInv, I!TypeOK
<1>3. \/ stored' = Append(stored, saved)
      \/ stored' = stored /\ errors' = errors + 1
  BY <1>1 DEF I!Done
<1>4. PICK m \in Nat, k \in Nat :
        m = Len(batch.media) /\ k = I!Items /\ item \in m + 1..k /\ done = item - 1
  <2>1. Len(batch.media) \in Nat /\ I!Items \in Nat
    BY BatchCounted DEF ImportInv, I!TypeOK, I!Items
  <2>2. done = item - 1
    BY <1>2 DEF ImportInv, Progress, ItemOver
  <2> QED
    BY <1>2, <2>1, <2>2
<1>5. Passed = item - 1 - m /\ Passed' = item - m /\ I!Draft = item - m
  <2>1. done' = item /\ batch' = batch /\ done = item - 1
    BY <1>2, <1>4 DEF ItemOver
  <2>2. Passed = (IF done > m THEN done - m ELSE 0) /\ I!Draft = item - m
    BY <1>4 DEF Passed, I!Draft
  <2>3. Passed' = IF item > m THEN item - m ELSE 0
    BY <1>4, <2>1 DEF Passed
  <2>4. item \in m + 1..k
    BY <1>4
  <2> QED
    BY <2>1, <2>2, <2>3, <2>4
<1>6. /\ errors \in Nat /\ errors' \in {errors, errors + 1}
      /\ Len(stored) <= Passed
      /\ errors = 0 => Len(stored) = Passed /\ \A i \in DOMAIN stored : stored[i].draft = i
      /\ shown \in 0..Len(stored)
  BY <1>2 DEF ImportInv, I!TypeOK, NoneLost, ItemOver
<1>7. stored \in Seq(I!ToSet(stored)) /\ Len(stored) \in Nat /\ DOMAIN stored = 1..Len(stored)
  BY LenProperties DEF ImportInv, NoneLost
<1>8. CASE stored' = Append(stored, saved)
  <2> HIDE DEF saved
  <2>1. /\ stored' \in Seq(I!ToSet(stored)') /\ Len(stored') = Len(stored) + 1
        /\ \A i \in 1..Len(stored) : stored'[i] = stored[i]
        /\ stored'[Len(stored) + 1] = saved
        /\ DOMAIN stored' = 1..Len(stored) + 1
    BY <1>7, <1>8, AppendAny DEF I!ToSet
  <2>2. saved.draft = item - m /\ saved.links = links
    BY <1>5 DEF saved
  <2>3. NoneLost'
    <3>1. Len(stored') <= Passed'
      <4>1. item \in m + 1..k /\ Passed = item - 1 - m /\ Passed' = item - m
        BY <1>4, <1>5
      <4>2. PICK n \in Nat : n = Len(stored) /\ n <= Passed
        BY <1>6, <1>7
      <4>3. n + 1 <= Passed'
        BY <4>1, <4>2
      <4> QED
        BY <2>1, <4>2, <4>3
    <3>2. ASSUME errors' = 0
          PROVE  Len(stored') = Passed' /\ \A i \in DOMAIN stored' : stored'[i].draft = i
      <4>1. errors = 0
        BY <1>6, <3>2
      <4>2. Len(stored) = item - 1 - m /\ \A i \in 1..Len(stored) : stored[i].draft = i
        BY <1>5, <1>6, <1>7, <4>1
      <4>3. Len(stored') = Passed' /\ Len(stored) + 1 = item - m
        BY <1>4, <1>5, <1>7, <2>1, <4>2
      <4>4. ASSUME NEW i \in 1..Len(stored) + 1 PROVE stored'[i].draft = i
        <5>1. CASE i \in 1..Len(stored)
          BY <2>1, <4>2, <5>1
        <5>2. CASE i = Len(stored) + 1
          BY <2>1, <2>2, <4>3, <5>2
        <5> QED
          BY <1>7, <5>1, <5>2
      <4> QED
        BY <2>1, <4>3, <4>4
    <3>3. ~Over'
      BY <1>2 DEF Over, ItemOver
    <3> QED
      BY <2>1, <3>1, <3>2, <3>3 DEF NoneLost
  <2>4. I!LinksLead'
    <3>1. ASSUME NEW i \in 1..Len(stored) + 1, NEW q \in DOMAIN stored'[i].links
          PROVE  \/ stored'[i].links[q] = [to |-> q, rest |-> <<>>]
                 \/ \E p \in I!ToSet(batch.media) \ {q} : I!IsPrefix(p, q)
      <4>1. CASE i \in 1..Len(stored)
        BY <1>7, <2>1, <3>1, <4>1 DEF ImportInv, I!LinksLead
      <4>2. CASE i = Len(stored) + 1
        <5>1. stored'[i].links = links
          BY <2>1, <2>2, <4>2
        <5> QED
          BY <3>1, <5>1, LinkLeads
      <4> QED
        BY <1>7, <4>1, <4>2
    <3>2. I!ToSet(batch.media)' = I!ToSet(batch.media)
      BY <1>2 DEF ItemOver, I!ToSet
    <3> QED
      BY <2>1, <3>1, <3>2 DEF I!LinksLead
  <2>5. Len(stored') \in Nat /\ shown \in 0..Len(stored')
    BY <1>6, <1>7, <2>1
  <2>6. item <= I!Items /\ paths' \subseteq I!ToSet(batch.media)
    BY <1>2, <1>4 DEF ImportInv, I!TypeOK
  <2> QED
    BY <1>2, <2>3, <2>4, <2>5, <2>6, ItemStep
<1>9. CASE stored' = stored /\ errors' = errors + 1
  <2>1. NoneLost'
    <3>1. errors' # 0 /\ Len(stored') <= Passed'
      BY <1>4, <1>5, <1>6, <1>7, <1>9
    <3> QED
      BY <1>7, <1>9, <3>1 DEF NoneLost, I!ToSet
  <2>2. I!LinksLead'
    BY <1>2, <1>9 DEF ImportInv, I!LinksLead, ItemOver
  <2>3. item <= I!Items /\ paths' \subseteq I!ToSet(batch.media)
    BY <1>2, <1>4 DEF ImportInv, I!TypeOK
  <2> QED
    BY <1>2, <1>6, <1>7, <1>9, <2>1, <2>2, <2>3, ItemStep
<1> QED
  BY <1>3, <1>8, <1>9

(* The reload shows what is stored, or counts as an error.                 *)
LEMMA ReloadStep ==
    ASSUME I!Setting, ImportInv, I!Reload
    PROVE  ImportInv'
<1>1. /\ ipc = "item" /\ ipc' = "reloaded" /\ item > I!Items
      /\ UNCHANGED <<pluginUploads, job, batch, item, done, paths, stored, unheard>>
  BY DEF I!Reload, I!Goto
<1>2. \/ shown' = Len(stored) /\ slip' = FALSE /\ errors' = errors /\ mishaps' = mishaps
      \/ /\ shown' = shown /\ slip' = TRUE /\ errors' = errors + 1
         /\ mishaps < MaxMishaps /\ mishaps' = mishaps + 1
  BY DEF I!Reload, I!Mishap, I!ReloadCounted
<1>3. I!Items' = I!Items /\ I!Total(batch)' = I!Total(batch)
  BY <1>1 DEF I!Items, I!Total
<1>4. PICK k \in Nat : k = I!Items /\ item \in 1..k + 1 /\ done = item - 1 /\ item > k
  BY <1>1, BatchCounted DEF ImportInv, I!TypeOK, I!Items, Progress
<1>5. done' = I!Items' /\ item' = I!Items' + 1
  <2>1. item = k + 1 /\ done = k
    BY <1>4
  <2> QED
    BY <1>1, <1>3, <1>4, <2>1
<1>6. /\ errors \in Nat /\ errors' \in Nat /\ errors <= errors' /\ errors' <= mishaps'
      /\ mishaps' \in 0..MaxMishaps /\ errors' \in 0..MaxMishaps
      /\ slip' => errors < errors'
  BY <1>2 DEF ImportInv, I!TypeOK, I!Setting
<1>7. shown' \in 0..Len(stored') /\ slip' \in BOOLEAN
  <2>1. PICK n \in Nat : n = Len(stored) /\ shown \in 0..n
    BY DEF ImportInv, I!TypeOK, NoneLost
  <2>2. shown' \in {n, shown} /\ Len(stored') = n
    BY <1>1, <1>2, <2>1
  <2>3. slip' \in BOOLEAN
    BY <1>2
  <2>4. \A i \in 0..n : i \in 0..n /\ n \in 0..n
    BY <2>1
  <2>5. shown' \in 0..n
    BY <2>1, <2>2, <2>4
  <2> QED
    BY <2>2, <2>3, <2>5
<1>8. I!TypeOK'
  <2>1. ipc' \in I!PCs
    BY <1>1 DEF I!PCs
  <2>2. item' \in 1..I!Items' + 1 /\ done' \in 0..I!Items'
    BY <1>3, <1>4, <1>5
  <2> QED
    BY <1>1, <1>6, <1>7, <2>1, <2>2 DEF ImportInv, I!TypeOK
<1>9. Progress'
  BY <1>1, <1>5 DEF Progress, Over
<1>10. JobFollows'
  <2>1. job # None /\ job.total = I!Total(batch) /\ job.errors <= errors
        /\ job.status = "running" /\ job.errors \in Nat
    BY <1>1 DEF ImportInv, I!TypeOK, JobFollows, Importing, I!Jobs
  <2>2. job.errors <= errors' /\ slip' => job.errors < errors'
    BY <1>6, <2>1
  <2>3. job.errors <= errors'
    BY <1>6, <2>1
  <2> QED
    BY <1>1, <1>3, <2>1, <2>2, <2>3 DEF JobFollows
<1>11. NoneLost'
  <2>1. Passed' = Passed
    BY <1>1 DEF Passed
  <2>2. errors' = 0 => errors = 0 /\ shown' = Len(stored)
    BY <1>2, <1>6
  <2> QED
    BY <1>1, <2>1, <2>2 DEF ImportInv, NoneLost, I!ToSet
<1>12. I!LinksLead'
  BY <1>1 DEF ImportInv, I!LinksLead
<1> QED
  BY <1>6, <1>8, <1>9, <1>10, <1>11, <1>12 DEF ImportInv

(* A plugin that dies leaves the job as it was.                            *)
LEMMA DieStep ==
    ASSUME I!Setting, ImportInv, I!Die
    PROVE  ImportInv'
<1>1. /\ ipc \notin {"idle", "ended", "dead"} /\ ipc' = "dead"
      /\ mishaps < MaxMishaps /\ mishaps' = mishaps + 1
      /\ UNCHANGED <<pluginUploads, job, batch, item, done, errors, paths, slip, stored,
                     shown, unheard>>
  BY DEF I!Die, I!Goto, I!Mishap, I!import
<1>2. I!Items' = I!Items /\ I!Total(batch)' = I!Total(batch)
  BY <1>1 DEF I!Items, I!Total
<1>3. mishaps' \in 0..MaxMishaps /\ errors <= mishaps'
  BY <1>1 DEF ImportInv, I!TypeOK, I!Setting
<1>4. I!TypeOK'
  <2>1. ipc' \in I!PCs
    BY <1>1 DEF I!PCs
  <2> QED
    BY <1>1, <1>2, <1>3, <2>1 DEF ImportInv, I!TypeOK
<1>5. Progress' /\ NoneLost' /\ I!LinksLead'
  BY <1>1, <1>2 DEF ImportInv, Progress, Over, NoneLost, Passed, I!LinksLead, I!ToSet
<1>6. JobFollows'
  BY <1>1, <1>2 DEF ImportInv, JobFollows, Importing
<1> QED
  BY <1>1, <1>3, <1>4, <1>5, <1>6 DEF ImportInv

(* A host that starts again has no job, and its index is what is stored.   *)
LEMMA RestartStep ==
    ASSUME I!Setting, ImportInv, I!RestartHost
    PROVE  ImportInv'
<1>1. /\ ipc # "idle" /\ ipc' = "dead" /\ job' = None /\ shown' = Len(stored)
      /\ mishaps < MaxMishaps /\ mishaps' = mishaps + 1
      /\ pluginUploads' = [k \in Tokens |-> None]
      /\ UNCHANGED <<batch, item, done, errors, paths, slip, stored, unheard>>
  BY DEF I!RestartHost, I!Goto, I!Mishap
<1>2. I!Items' = I!Items
  BY <1>1 DEF I!Items
<1>3. mishaps' \in 0..MaxMishaps /\ errors <= mishaps'
  BY <1>1 DEF ImportInv, I!TypeOK, I!Setting
<1>4. I!TypeOK'
  <2>1. /\ ipc' \in I!PCs /\ job' \in I!Jobs \cup {None}
        /\ pluginUploads' \in [Tokens -> Exports \cup {None}]
    BY <1>1 DEF I!PCs
  <2>2. Len(stored) \in Nat /\ shown' \in 0..Len(stored')
    BY <1>1 DEF ImportInv, NoneLost
  <2> QED
    BY <1>1, <1>2, <1>3, <2>1, <2>2 DEF ImportInv, I!TypeOK
<1>5. Progress' /\ NoneLost' /\ I!LinksLead'
  BY <1>1, <1>2 DEF ImportInv, Progress, Over, NoneLost, Passed, I!LinksLead, I!ToSet
<1>6. JobFollows'
  BY <1>1 DEF JobFollows, Importing
<1> QED
  BY <1>1, <1>3, <1>4, <1>5, <1>6 DEF ImportInv

(* Every step of an import, and of what ends it early.                     *)
LEMMA ImportInductive ==
    ASSUME I!Setting, ImportInv, [I!Next]_I!vars
    PROVE  ImportInv'
<1>1. CASE \E k \in Tokens, e \in Exports : I!Inspect(k, e)
  BY <1>1, InspectStep
<1>2. CASE \E k \in Tokens : I!Import(k)
  BY <1>2, ImportStep
<1>3. CASE I!Step
  BY <1>3, ReportStep, SaveMediaStep, SaveDraftStep, ReloadStep, FinishStep DEF I!Step
<1>4. CASE I!Die
  BY <1>4, DieStep
<1>5. CASE I!RestartHost
  BY <1>5, RestartStep
<1>6. CASE UNCHANGED I!vars
  <2>1. UNCHANGED <<pluginUploads, job, ipc, batch, item, done, errors, paths, slip,
                    stored, shown, mishaps, unheard>>
    BY <1>6 DEF I!vars, I!import
  <2>2. I!Items' = I!Items /\ I!Total(batch)' = I!Total(batch) /\ I!Outcome' = I!Outcome
    BY <2>1 DEF I!Items, I!Total, I!Outcome
  <2>3. I!TypeOK'
    BY <2>1, <2>2 DEF ImportInv, I!TypeOK
  <2>4. Progress' /\ NoneLost' /\ I!LinksLead'
    BY <2>1, <2>2 DEF ImportInv, Progress, Over, NoneLost, Passed, I!LinksLead, I!ToSet
  <2>5. JobFollows'
    BY <2>1, <2>2 DEF ImportInv, JobFollows, Importing
  <2> QED
    BY <2>1, <2>3, <2>4, <2>5 DEF ImportInv
<1> QED
  BY <1>1, <1>2, <1>3, <1>4, <1>5, <1>6 DEF I!Next

(* A job that is over has gone through all items, and without errors has   *)
(* stored them all.                                                        *)
LEMMA ImportKeeps ==
    ASSUME I!Setting, ImportInv
    PROVE  I!ImportHonest
<1>1. SUFFICES ASSUME job # None, job.status # "running" PROVE I!JobHonest
  BY DEF ImportInv, I!JobHonest, I!ImportHonest
<1>2. ipc = "ended" /\ job.done = job.total /\ job.status = I!Outcome
  BY <1>1 DEF ImportInv, JobFollows
<1>3. errors \in Nat /\ done = I!Items /\ item = I!Items + 1
  BY <1>2 DEF ImportInv, I!TypeOK, Progress, Over
<1>4. job.status = "completed_with_errors" <=> errors > 0
  BY <1>2, <1>3 DEF I!Outcome
<1>5. ASSUME errors = 0
      PROVE  /\ shown = Len(stored)
             /\ [i \in DOMAIN stored |-> stored[i].draft] = [i \in DOMAIN batch.drafts |-> i]
  <2>1. /\ shown = Len(stored) /\ Len(stored) = Passed
        /\ \A i \in DOMAIN stored : stored[i].draft = i
        /\ DOMAIN stored = 1..Len(stored)
    BY <1>2, <1>5 DEF ImportInv, NoneLost, Over
  <2>2. Len(batch.drafts) \in Nat /\ DOMAIN batch.drafts = 1..Len(batch.drafts)
        /\ Len(batch.media) \in Nat
    BY BatchCounted DEF ImportInv, I!TypeOK
  <2>3. PICK m \in Nat, n \in Nat : m = Len(batch.media) /\ n = Len(batch.drafts)
    BY <2>2
  <2>4. done = m + n
    BY <1>3, <2>3 DEF I!Items
  <2>5. Passed = IF done > m THEN done - m ELSE 0
    BY <2>3 DEF Passed
  <2>6. Passed = n
    BY <2>4, <2>5
  <2>7. DOMAIN stored = DOMAIN batch.drafts
    BY <2>1, <2>2, <2>3, <2>6
  <2> QED
    BY <2>1, <2>7
<1>6. job.status = "completed" => errors = 0
  BY <1>2, <1>3 DEF I!Outcome
<1> QED
  BY <1>1, <1>2, <1>4, <1>5, <1>6 DEF I!JobHonest

(* What is imported has as many placeholders as media.                     *)
LEMMA BatchApart ==
    ASSUME I!Setting, batch \in I!Batches
    PROVE  I!PlaceholdersDiffer
<1>1. batch.media \in Seq(Seq(Letters)) /\ Apart(batch.media)
  <2>1. CASE batch = I!NoBatch
    BY <2>1 DEF I!NoBatch, Apart
  <2>2. CASE \E e \in Exports : batch = I!BuildBatch(e)
    BY <2>2, BatchSound
  <2> QED BY <2>1, <2>2 DEF I!Batches
<1> QED
  BY <1>1, MediaFinite, ImportCounts DEF I!PlaceholdersDiffer

-----------------------------------------------------------------------------
(* Whatever the export, and whichever calls fail or time out: a job that   *)
(* says it completed has stored every draft once, in order, and the site   *)
(* serves them; one with errors says so; and a link leads to its media, or *)
(* to another one only if one placeholder begins with the other.           *)
THEOREM ImportsHonest ==
    ASSUME I!Setting
    PROVE  I!Spec => [](I!TypeOK /\ I!ImportHonest)
<1>1. ImportInv => I!TypeOK /\ I!ImportHonest
  BY ImportKeeps DEF ImportInv
<1>2. I!Init => ImportInv
  BY NoneImported
<1>3. ImportInv /\ [I!Next]_I!vars => ImportInv'
  BY ImportInductive
<1> QED
  BY <1>1, <1>2, <1>3, PTL DEF I!Spec

-----------------------------------------------------------------------------
(* The three together, each moving alone: what does not move stays as it   *)
(* was, and what moves keeps its invariant.                                *)
Together ==
    /\ part = "export" => ExportInv
    /\ part = "backup" => BackupInv
    /\ part = "importer" => ImportInv

(* One part moves, by a step of its own.                                   *)
LEMMA TogetherInductive ==
    ASSUME Together, [Next]_vars
    PROVE  Together'
<1>1. E!Setting /\ B!Setting /\ I!Setting
  BY SettingAssumption
<1>2. part' = part
  BY DEF Next, ExportNext, BackupNext, ImporterNext, vars
<1>3. CASE part = "export"
  <2>1. [E!Next]_E!vars
    BY <1>3 DEF Next, ExportNext, BackupNext, ImporterNext, vars, exportVars, E!vars
  <2> QED
    BY <1>1, <1>2, <1>3, <2>1, ExportInductive DEF Together
<1>4. CASE part = "backup"
  <2>1. [B!Next]_B!vars
    BY <1>4 DEF Next, ExportNext, BackupNext, ImporterNext, vars, backupVars, B!vars,
                B!config, B!state, B!scheduler, B!backup
  <2> QED
    BY <1>1, <1>2, <1>4, <2>1, BackupInductive DEF Together
<1>5. CASE part = "importer"
  <2>1. [I!Next]_I!vars
    BY <1>5 DEF Next, ExportNext, BackupNext, ImporterNext, vars, importerVars, I!vars,
                I!import
  <2> QED
    BY <1>1, <1>2, <1>5, <2>1, ImportInductive DEF Together
<1> QED
  BY <1>2, <1>3, <1>4, <1>5 DEF Together

(* So each is right in the run that has them side by side.                 *)
LEMMA TogetherHolds == SafeSpec => []Together
<1>1. E!Setting /\ B!Setting /\ I!Setting
  BY SettingAssumption
<1>2. Init => Together
  BY <1>1, ExportInitially, BackupInitially, NoneImported DEF Init, Together
<1>3. Together /\ [Next]_vars => Together'
  BY TogetherInductive
<1> QED
  BY <1>2, <1>3, PTL DEF SafeSpec

-----------------------------------------------------------------------------
(* What runs side by side is what each promises alone.                     *)
THEOREM PluginsTyped == SafeSpec => []TypeOK
<1>1. Together => TypeOK
  BY DEF Together, TypeOK, ExportInv, BackupInv, ImportInv
<1> QED
  BY <1>1, TogetherHolds, PTL

(* An archive holds what nobody touched, and no temporary file is left.    *)
THEOREM ExportsWhole == SafeSpec => []ExportWhole
<1>1. Together => ExportWhole
  BY DEF Together, ExportWhole, ExportInv, Steady, Way, E!ExportWhole, E!ArchiveWhole
<1> QED
  BY <1>1, TogetherHolds, PTL

(* No failure, stop or deletion costs the last acknowledged backup.        *)
THEOREM BackupsStay == SafeSpec => []BackupsKept
<1>1. Together => BackupsKept
  BY SettingAssumption, BackupKeeps DEF Together, BackupsKept
<1> QED
  BY <1>1, TogetherHolds, PTL

(* The job that the administration polls ends with what has happened.      *)
THEOREM ImportsTruthful == SafeSpec => []ImportHonest
<1>1. Together => ImportHonest
  BY SettingAssumption, ImportKeeps DEF Together, ImportHonest
<1> QED
  BY <1>1, TogetherHolds, PTL

(* No media takes the placeholder of another, in any export file: with ids *)
(* that repeat, that look like the ones addMedia makes, or without any.    *)
THEOREM PlaceholdersApart == SafeSpec => []PlaceholdersDiffer
<1>1. Together => PlaceholdersDiffer
  BY SettingAssumption, BatchApart DEF Together, PlaceholdersDiffer, ImportInv, I!TypeOK
<1> QED
  BY <1>1, TogetherHolds, PTL

-----------------------------------------------------------------------------
(* What a scan makes of the packs it finds: module Catalog, for any files. *)
(* Bundles are bundles of something (NoId is not the id of one), and       *)
(* English and the listed languages are languages.                         *)

(* Messages with keys of K and texts of V, and texts by language; packs as *)
(* they are on the disk and as they are built, with ids of X and languages *)
(* of L. A built pack has texts in its own language.                       *)
Messages(K, V)    == UNION {[S -> V] : S \in SUBSET K}
TextsOf(K, V, L)  == UNION {[S -> Messages(K, V)] : S \in SUBSET L}
Given(K, V, L, X) ==
    [id : X, type : X, source : X, files : TextsOf(K, V, L), declared : L \cup {NoId}]
Packs(K, V, L, X) ==
    {p \in [id : X, type : X, source : X, bundle : X \cup {NoId}, default : L,
            locales : SUBSET L, texts : TextsOf(K, V, L)] :
        p.default \in DOMAIN p.texts}
Roots(K, V, L, X) ==
    [themes : Seq(Given(K, V, L, X)), plugins : Seq(Given(K, V, L, X)),
     texts : Seq(Given(K, V, L, X)),
     bundles : Seq([id : X, source : X, packs : Seq(Given(K, V, L, X))])]

Gives(messages, x) == x \in DOMAIN messages /\ messages[x] # Blank

(* The last of some indices.                                               *)
LEMMA LastIndex ==
    /\ \A t : Cat!Max(t) = I!Max(t)
    /\ \A n \in Nat : \A t \in SUBSET (1..n) : t # {} => Cat!Max(t) \in 1..n
<1>1. \A t : Cat!Max(t) = I!Max(t)
  BY DEF Cat!Max, I!Max
<1> QED
  BY <1>1, GreatestNumber

(* The longest prefix of a prefix.                                         *)
LEMMA Prefixes ==
    ASSUME NEW k \in Nat
    PROVE  Cat!Max(1..k + 1) = k + 1 /\ (1..k + 1) \ {k + 1} = 1..k
<1> DEFINE t == 1..k + 1
<1>1. k + 1 \in Nat /\ t \in SUBSET t /\ t # {} /\ k + 1 \in t
  OBVIOUS
<1>2. I!Max(t) \in t /\ \A m \in t : m <= I!Max(t)
  BY <1>1, GreatestNumber
<1>3. I!Max(t) = k + 1
  BY <1>1, <1>2
<1>4. Cat!Max(t) = I!Max(t)
  BY DEF Cat!Max, I!Max
<1> QED
  BY <1>3, <1>4

(* What a prefix of a prefix has.                                          *)
LEMMA UpTo ==
    \A n, k \in Nat : k + 1 <= n =>
        (1..k + 1) \in SUBSET (1..n) /\ 1..k + 1 # {} /\ k + 1 \in 1..n
<1> SUFFICES ASSUME NEW n \in Nat, NEW k \in Nat, k + 1 <= n
             PROVE  (1..k + 1) \in SUBSET (1..n) /\ 1..k + 1 # {} /\ k + 1 \in 1..n
  OBVIOUS
<1>1. k + 1 \in 1..k + 1 /\ k + 1 \in 1..n
  OBVIOUS
<1>2. \A m \in 1..k + 1 : m \in 1..n
  OBVIOUS
<1> QED BY <1>1, <1>2

(* The first place that has something.                                     *)
LEMMA FirstPlace ==
    ASSUME NEW n \in Nat, NEW ns \in SUBSET (1..n), ns # {}
    PROVE  Cat!Min(ns) \in ns /\ \A m \in ns : Cat!Min(ns) <= m
<1>1. PICK x \in ns : \A y \in ns : x <= y
  <2>1. ns \in SUBSET Nat
    OBVIOUS
  <2> QED BY <2>1, LeastNumber
<1>2. \E z \in ns : \A y \in ns : z =< y
  BY <1>1
<1> QED
  BY <1>2 DEF Cat!Min

(* A fold, step by step: r is the function of the indices gone through.    *)
Turns(r, n, D, base, steps) ==
    /\ r \in [0..n -> D]
    /\ r[0] = base
    /\ \A k \in 1..n : r[k - 1] \in D /\ r[k] = steps[k][r[k - 1]]

FoldsBy(f, n, D, base, steps) ==
    /\ n \in Nat /\ base \in D /\ steps \in [1..n -> [D -> D]]
    /\ f[{}] = base
    /\ \A t \in SUBSET (1..n) : t # {} /\ f[t \ {Cat!Max(t)}] \in D =>
          f[t] = steps[Cat!Max(t)][f[t \ {Cat!Max(t)}]]

HasTurns(f, n, D, base, steps) ==
    \E r : Turns(r, n, D, base, steps) /\ \A k \in 0..n : r[k] = f[1..k]

(* A fold that starts in a set and stays there goes turn by turn.          *)
LEMMA FoldGoes ==
    ASSUME NEW n \in Nat, NEW D, NEW base \in D, NEW steps \in [1..n -> [D -> D]],
           NEW f, FoldsBy(f, n, D, base, steps)
    PROVE  HasTurns(f, n, D, base, steps)
<1>0. /\ f[{}] = base
      /\ \A t \in SUBSET (1..n) : t # {} /\ f[t \ {Cat!Max(t)}] \in D =>
            f[t] = steps[Cat!Max(t)][f[t \ {Cat!Max(t)}]]
  BY Zenon DEF FoldsBy
<1>1. ASSUME NEW k \in Nat, k + 1 <= n, f[1..k] \in D
      PROVE  f[1..k + 1] = steps[k + 1][f[1..k]] /\ k + 1 \in 1..n
  <2> DEFINE t == 1..k + 1
  <2>1. t \in SUBSET (1..n) /\ t # {} /\ k + 1 \in 1..n
    BY <1>1, UpTo
  <2>2. Cat!Max(t) = k + 1 /\ t \ {k + 1} = 1..k
    BY Prefixes
  <2> HIDE DEF t
  <2>3. f[t] = steps[k + 1][f[1..k]]
    <3>1. f[t \ {Cat!Max(t)}] \in D
      BY <1>1, <2>2
    <3>2. f[t] = steps[Cat!Max(t)][f[t \ {Cat!Max(t)}]]
      BY <1>0, <2>1, <3>1
    <3> QED BY <2>2, <3>2
  <2> QED BY <2>1, <2>3 DEF t
<1> DEFINE r  == [k \in 0..n |-> f[1..k]]
           ns == {k \in Nat : k <= n => f[1..k] \in D}
<1>2. f[1..0] = base
  <2>1. 1..0 = {}
    OBVIOUS
  <2> QED BY <1>0, <2>1
<1>3. 0 \in ns
  BY <1>2
<1>4. ASSUME NEW k \in Nat, k \in ns PROVE k + 1 \in ns
  <2> SUFFICES ASSUME k + 1 <= n PROVE f[1..k + 1] \in D
    OBVIOUS
  <2>1. f[1..k] \in D
    BY <1>4
  <2>2. f[1..k + 1] = steps[k + 1][f[1..k]] /\ k + 1 \in 1..n
    BY <1>1, <2>1
  <2> QED BY <2>1, <2>2
<1>5. Nat \subseteq ns
  <2> HIDE DEF ns
  <2> QED BY <1>3, <1>4, Counting
<1>6. r \in [0..n -> D]
  <2>1. \A k \in 0..n : k \in Nat /\ k <= n
    OBVIOUS
  <2>2. \A k \in 0..n : k \in ns
    BY <1>5, <2>1
  <2>3. \A k \in ns : k <= n => f[1..k] \in D
    OBVIOUS
  <2>4. \A k \in 0..n : f[1..k] \in D
    <3> HIDE DEF ns
    <3> QED BY <2>1, <2>2, <2>3
  <2> QED BY <2>4
<1>7. ASSUME NEW k \in 1..n PROVE r[k - 1] \in D /\ r[k] = steps[k][r[k - 1]]
  <2>1. k - 1 \in Nat /\ k - 1 \in 0..n /\ k \in 0..n /\ k = (k - 1) + 1 /\ (k - 1) + 1 <= n
    OBVIOUS
  <2>2. f[1..k - 1] \in D
    BY <1>6, <2>1
  <2>3. f[1..k] = steps[k][f[1..k - 1]]
    <3> DEFINE j == k - 1
    <3>1. j \in Nat /\ j + 1 <= n /\ f[1..j] \in D /\ k = j + 1
      BY <2>1, <2>2
    <3> HIDE DEF j
    <3>2. f[1..j + 1] = steps[j + 1][f[1..j]]
      BY <3>1, <1>1
    <3> QED BY <3>1, <3>2 DEF j
  <2> QED BY <2>1, <2>2, <2>3
<1>8. r[0] = base
  <2>1. 0 \in 0..n
    OBVIOUS
  <2> QED BY <1>2, <2>1
<1>9. Turns(r, n, D, base, steps)
  <2> HIDE DEF r
  <2> QED BY <1>6, <1>7, <1>8 DEF Turns
<1>10. \A k \in 0..n : r[k] = f[1..k]
  OBVIOUS
<1> QED
  <2> HIDE DEF r
  <2> QED BY <1>9, <1>10 DEF HasTurns

(* What makes a fold so is all that is asked of it.                        *)
LEMMA FoldTurns ==
    ASSUME NEW f, NEW n, NEW D, NEW base, NEW steps, FoldsBy(f, n, D, base, steps)
    PROVE  HasTurns(f, n, D, base, steps)
<1>1. n \in Nat /\ base \in D /\ steps \in [1..n -> [D -> D]]
  BY Zenon DEF FoldsBy
<1> QED
  BY <1>1, FoldGoes

(* What a pack says in a language,                                         *)
LEMMA NothingSaid == \A K, V : <<>> \in Messages(K, V)
<1> SUFFICES ASSUME NEW K, NEW V PROVE <<>> \in Messages(K, V)
  OBVIOUS
<1>1. <<>> \in [{} -> V] /\ {} \in SUBSET K
  OBVIOUS
<1> QED BY <1>1 DEF Messages

(* whatever the language,                                                  *)
LEMMA TextsTyped ==
    ASSUME NEW K, NEW V, NEW L, NEW X, NEW p \in Packs(K, V, L, X), NEW l
    PROVE  Cat!TextsIn(p, l) \in Messages(K, V)
<1>1. PICK S \in SUBSET L : p.texts \in [S -> Messages(K, V)]
  BY DEF Packs, TextsOf
<1> QED
  BY <1>1, NothingSaid DEF Cat!TextsIn

(* and over another text.                                                  *)
LEMMA MergedTexts ==
    ASSUME NEW K, NEW V, NEW a \in Messages(K, V), NEW b \in Messages(K, V)
    PROVE  /\ Cat!Merged(a, b) \in Messages(K, V)
           /\ \A x : x \in DOMAIN Cat!Merged(a, b) <=> x \in DOMAIN a \/ Gives(b, x)
           /\ \A x \in DOMAIN Cat!Merged(a, b) :
                 Cat!Merged(a, b)[x] = IF Gives(b, x) THEN b[x] ELSE a[x]
<1>1. PICK R \in SUBSET K : a \in [R -> V]
  BY DEF Messages
<1>2. PICK S \in SUBSET K : b \in [S -> V]
  BY DEF Messages
<1> DEFINE given == {k \in DOMAIN b : b[k] # Blank}
           both  == [k \in R \cup given |-> IF k \in given THEN b[k] ELSE a[k]]
<1>3. Cat!Merged(a, b) = both
  BY <1>1, <1>2 DEF Cat!Merged
<1>4. both \in [R \cup given -> V] /\ R \cup given \in SUBSET K
  BY <1>1, <1>2
<1>5. both \in Messages(K, V)
  <2> HIDE DEF both, given
  <2> QED BY <1>4 DEF Messages
<1> QED
  BY <1>1, <1>3, <1>5 DEF Gives

(* The plugins are laid over a text one by one, from the last,             *)
LEMMA OverlayTurns ==
    ASSUME NEW K, NEW V, NEW L, NEW X, NEW active \in Seq(Packs(K, V, L, X)), NEW lang,
           NEW base \in Messages(K, V)
    PROVE  LET n == Len(active)
           IN \E r \in [0..n -> Messages(K, V)] :
                 /\ r[0] = base
                 /\ \A k \in 1..n :
                       r[k] = Cat!Merged(r[k - 1], Cat!TextsIn(active[n - k + 1], lang))
                 /\ Cat!Overlaid(active, lang, base) = r[n]
<1> DEFINE n     == Len(active)
           M     == Messages(K, V)
           rev   == Cat!Reverse(active)
           steps == [i \in 1..n |-> [m \in M |-> Cat!Merged(m, Cat!TextsIn(rev[i], lang))]]
           f     == CHOOSE h : h = [t \in SUBSET DOMAIN rev |->
                       IF t = {} THEN base
                       ELSE Cat!Merged(h[t \ {Cat!Max(t)}], Cat!TextsIn(rev[Cat!Max(t)], lang))]
<1>1. /\ n \in Nat /\ DOMAIN rev = 1..n /\ base \in M
      /\ \A i \in 1..n : rev[i] = active[n - i + 1] /\ rev[i] \in Packs(K, V, L, X)
  BY DEF Cat!Reverse
<1>2. steps \in [1..n -> [M -> M]]
  <2>1. ASSUME NEW i \in 1..n, NEW m \in M
        PROVE  Cat!Merged(m, Cat!TextsIn(rev[i], lang)) \in M
    <3> HIDE DEF rev, n
    <3>1. Cat!TextsIn(rev[i], lang) \in Messages(K, V)
      BY <1>1, TextsTyped
    <3> QED BY <3>1, MergedTexts
  <2> HIDE DEF rev, n, M
  <2> QED BY <2>1
<1>3. \A t \in SUBSET (1..n) : t # {} => Cat!Max(t) \in 1..n
  <2> HIDE DEF n
  <2> QED BY <1>1, LastIndex
<1>4. \E g : g = [t \in SUBSET DOMAIN rev |->
                    IF t = {} THEN base
                    ELSE Cat!Merged(g[t \ {Cat!Max(t)}], Cat!TextsIn(rev[Cat!Max(t)], lang))]
  <2>1. PICK g \in [SUBSET (1..n) -> M] :
            \A t \in SUBSET (1..n) : FoldStep(g, t, n, M, base, steps)
    <3> HIDE DEF n, steps
    <3> QED BY <1>1, <1>2, FoldSteps
  <2>2. \A t : Cat!Max(t) = I!Max(t)
    BY LastIndex
  <2>3. ASSUME NEW t \in SUBSET (1..n)
        PROVE  g[t] = IF t = {} THEN base
                      ELSE Cat!Merged(g[t \ {Cat!Max(t)}], Cat!TextsIn(rev[Cat!Max(t)], lang))
    <3> HIDE DEF n, rev, M
    <3> QED BY <2>1, <2>2 DEF FoldStep
  <2>4. DOMAIN g = SUBSET DOMAIN rev
    BY <1>1
  <2> HIDE DEF n, rev, M
  <2> QED BY <1>1, <2>3, <2>4
<1>5. f = [t \in SUBSET DOMAIN rev |->
             IF t = {} THEN base
             ELSE Cat!Merged(f[t \ {Cat!Max(t)}], Cat!TextsIn(rev[Cat!Max(t)], lang))]
  <2> HIDE DEF n, rev
  <2> QED BY <1>4
<1>6. PICK r : Turns(r, n, M, base, steps) /\ \A k \in 0..n : r[k] = f[1..k]
  <2>1. {} \in SUBSET (1..n)
    OBVIOUS
  <2> HIDE DEF f, n, rev
  <2>2. f[{}] = base
    BY <1>1, <1>5, <2>1
  <2>3. ASSUME NEW t \in SUBSET (1..n), t # {}, f[t \ {Cat!Max(t)}] \in M
        PROVE  f[t] = steps[Cat!Max(t)][f[t \ {Cat!Max(t)}]]
    <3> HIDE DEF M
    <3> QED BY <1>1, <1>3, <1>5, <2>3
  <2>4. FoldsBy(f, n, M, base, steps)
    <3> HIDE DEF steps, M
    <3>1. n \in Nat /\ base \in M /\ steps \in [1..n -> [M -> M]]
      BY <1>1, <1>2
    <3> QED BY <2>2, <2>3, <3>1 DEF FoldsBy
  <2> HIDE DEF steps, M
  <2> QED BY <2>4, FoldTurns DEF HasTurns
<1>7. Cat!Overlaid(active, lang, base) = f[1..n]
  <2>1. Cat!Overlaid(active, lang, base) = f[DOMAIN rev]
    BY DEF Cat!Overlaid, Cat!FoldLeft, Cat!MapThenFoldSet
  <2> HIDE DEF f, rev, n
  <2> QED BY <1>1, <2>1
<1>8. /\ r \in [0..n -> M] /\ r[0] = base /\ r[n] = f[1..n]
      /\ \A k \in 1..n : r[k] = Cat!Merged(r[k - 1], Cat!TextsIn(active[n - k + 1], lang))
  <2> HIDE DEF f, n, rev, M
  <2>1. r \in [0..n -> M] /\ r[0] = base
    BY <1>6 DEF Turns
  <2>2. \A k \in 1..n : r[k - 1] \in M /\ r[k] = steps[k][r[k - 1]]
    BY <1>6 DEF Turns
  <2>3. r[n] = f[1..n]
    BY <1>1, <1>6
  <2> QED BY <1>1, <2>1, <2>2, <2>3
<1> QED
  <2> HIDE DEF f, rev
  <2> QED BY <1>7, <1>8

(* Over itself a text is the same; over two texts in a row, over the one   *)
(* they make.                                                              *)
LEMMA MergedSame ==
    ASSUME NEW K, NEW V, NEW m \in Messages(K, V)
    PROVE  Cat!Merged(m, m) = m
<1>1. PICK R \in SUBSET K : m \in [R -> V]
  BY DEF Messages
<1>2. \A x : x \in DOMAIN Cat!Merged(m, m) <=> x \in DOMAIN m
  BY MergedTexts DEF Gives
<1>3. \A x \in DOMAIN m : Cat!Merged(m, m)[x] = m[x]
  BY <1>2, MergedTexts
<1>4. PICK S \in SUBSET K : Cat!Merged(m, m) \in [S -> V]
  BY MergedTexts DEF Messages
<1> QED
  BY <1>1, <1>2, <1>3, <1>4

(* Laid over one after the other, or made one before: it is the same.      *)
LEMMA MergedTwice ==
    ASSUME NEW K, NEW V, NEW m \in Messages(K, V), NEW a \in Messages(K, V),
           NEW b \in Messages(K, V)
    PROVE  Cat!Merged(m, Cat!Merged(a, b)) = Cat!Merged(Cat!Merged(m, a), b)
<1> DEFINE ab == Cat!Merged(a, b)
           ma == Cat!Merged(m, a)
           l  == Cat!Merged(m, ab)
           r  == Cat!Merged(ma, b)
<1>1. ab \in Messages(K, V) /\ ma \in Messages(K, V)
  BY MergedTexts
<1>2. l \in Messages(K, V) /\ r \in Messages(K, V)
  BY <1>1, MergedTexts
<1>3. \A x : Gives(ab, x) <=> Gives(a, x) \/ Gives(b, x)
  BY MergedTexts DEF Gives
<1>4. \A x : x \in DOMAIN l <=> x \in DOMAIN m \/ Gives(a, x) \/ Gives(b, x)
  <2> HIDE DEF ab
  <2> QED BY <1>1, <1>3, MergedTexts
<1>5. \A x : x \in DOMAIN r <=> x \in DOMAIN m \/ Gives(a, x) \/ Gives(b, x)
  <2>1. \A x : x \in DOMAIN ma <=> x \in DOMAIN m \/ Gives(a, x)
    BY MergedTexts
  <2> HIDE DEF ma
  <2> QED BY <1>1, <2>1, MergedTexts
<1>6. ASSUME NEW x \in DOMAIN l PROVE l[x] = r[x]
  <2>1. x \in DOMAIN r
    BY <1>4, <1>5, <1>6
  <2>2. l[x] = IF Gives(ab, x) THEN ab[x] ELSE m[x]
    <3> HIDE DEF ab
    <3> QED BY <1>1, <1>6, MergedTexts
  <2>3. r[x] = IF Gives(b, x) THEN b[x] ELSE ma[x]
    <3> HIDE DEF ma
    <3> QED BY <1>1, <2>1, MergedTexts
  <2>4. Gives(ab, x) => ab[x] = IF Gives(b, x) THEN b[x] ELSE a[x]
    BY MergedTexts DEF Gives
  <2>5. ~Gives(b, x) => x \in DOMAIN ma /\ ma[x] = IF Gives(a, x) THEN a[x] ELSE m[x]
    <3>1. \A y : y \in DOMAIN ma <=> y \in DOMAIN m \/ Gives(a, y)
      BY MergedTexts
    <3>2. \A y \in DOMAIN ma : ma[y] = IF Gives(a, y) THEN a[y] ELSE m[y]
      BY MergedTexts
    <3> HIDE DEF ma
    <3> QED BY <1>4, <1>6, <3>1, <3>2
  <2> HIDE DEF ab, ma, l, r
  <2> QED BY <1>3, <2>2, <2>3, <2>4, <2>5
<1>7. PICK R, S : l \in [R -> V] /\ r \in [S -> V]
  BY <1>2 DEF Messages
<1>8. l = r
  <2> HIDE DEF l, r
  <2> QED BY <1>4, <1>5, <1>6, <1>7
<1> QED
  BY <1>8

(* A pack in a language: what it says there over its own language.         *)
LEMMA LocalizedTexts ==
    ASSUME NEW K, NEW V, NEW L, NEW X, NEW p \in Packs(K, V, L, X), NEW l
    PROVE  Cat!Localized(p, l) = Cat!Merged(Cat!TextsIn(p, p.default), Cat!TextsIn(p, l))
<1>1. \A d : Cat!TextsIn(p, d) \in Messages(K, V)
  BY TextsTyped
<1>2. CASE l = p.default
  <2>1. Cat!Localized(p, l) = Cat!TextsIn(p, l)
    BY <1>2 DEF Cat!Localized
  <2> QED BY <1>1, <1>2, <2>1, MergedSame
<1>3. CASE l # p.default
  BY <1>3 DEF Cat!Localized
<1> QED
  BY <1>2, <1>3

(* The text of x in the first of the layers from a place on that gives     *)
(* one; and texts that are all so.                                         *)
Leads(ls, from, x, v) ==
    \/ \E i \in DOMAIN ls : /\ i >= from /\ Gives(ls[i], x) /\ v = ls[i][x]
                            /\ \A j \in DOMAIN ls : from <= j /\ j < i => ~Gives(ls[j], x)
    \/ /\ v = Blank
       /\ \A i \in DOMAIN ls : i >= from => ~Gives(ls[i], x)

Shown(m, ls, from) ==
    /\ \A x \in DOMAIN m : Leads(ls, from, x, m[x])
    /\ \A i \in DOMAIN ls : i >= from => \A x : Gives(ls[i], x) => x \in DOMAIN m

(* One more layer, in front of the others.                                 *)
LEMMA LaidOver ==
    ASSUME NEW K, NEW V, NEW n \in Nat, NEW ls \in [1..n -> Messages(K, V)],
           NEW m \in Messages(K, V), NEW j \in 1..n, Shown(m, ls, j + 1)
    PROVE  Shown(Cat!Merged(m, ls[j]), ls, j)
<1> DEFINE a == Cat!Merged(m, ls[j])
<1>1. ls[j] \in Messages(K, V)
  OBVIOUS
<1>2. /\ \A x : x \in DOMAIN a <=> x \in DOMAIN m \/ Gives(ls[j], x)
      /\ \A x \in DOMAIN a : a[x] = IF Gives(ls[j], x) THEN ls[j][x] ELSE m[x]
  BY <1>1, MergedTexts
<1> HIDE DEF a
<1>3. \A i \in DOMAIN ls : i \in Int /\ (i >= j <=> i = j \/ i >= j + 1)
  OBVIOUS
<1>4. ASSUME NEW x \in DOMAIN a PROVE Leads(ls, j, x, a[x])
  <2>1. CASE Gives(ls[j], x)
    <3>1. j \in DOMAIN ls /\ j >= j /\ a[x] = ls[j][x]
      BY <1>2, <1>4, <2>1
    <3>2. \A i \in DOMAIN ls : ~(j <= i /\ i < j)
      BY <1>3
    <3> QED BY <2>1, <3>1, <3>2 DEF Leads
  <2>2. CASE ~Gives(ls[j], x)
    <3>1. x \in DOMAIN m /\ a[x] = m[x]
      BY <1>2, <1>4, <2>2
    <3>2. Leads(ls, j + 1, x, m[x])
      BY <3>1 DEF Shown
    <3>3. CASE \E i \in DOMAIN ls :
                   /\ i >= j + 1 /\ Gives(ls[i], x) /\ m[x] = ls[i][x]
                   /\ \A h \in DOMAIN ls : j + 1 <= h /\ h < i => ~Gives(ls[h], x)
      <4>1. PICK i \in DOMAIN ls :
                   /\ i >= j + 1 /\ Gives(ls[i], x) /\ m[x] = ls[i][x]
                   /\ \A h \in DOMAIN ls : j + 1 <= h /\ h < i => ~Gives(ls[h], x)
        BY <3>3
      <4>2. \A h \in DOMAIN ls : j <= h /\ h < i => ~Gives(ls[h], x)
        BY <1>3, <2>2, <4>1
      <4>3. i >= j
        BY <1>3, <4>1
      <4> QED BY <3>1, <4>1, <4>2, <4>3 DEF Leads
    <3>4. CASE m[x] = Blank /\ \A i \in DOMAIN ls : i >= j + 1 => ~Gives(ls[i], x)
      BY <1>3, <2>2, <3>1, <3>4 DEF Leads
    <3> QED BY <3>2, <3>3, <3>4 DEF Leads
  <2> QED BY <2>1, <2>2
<1>5. ASSUME NEW i \in DOMAIN ls, i >= j, NEW x, Gives(ls[i], x) PROVE x \in DOMAIN a
  <2>1. CASE i = j
    BY <1>2, <1>5, <2>1
  <2>2. CASE i >= j + 1
    BY <1>2, <1>5, <2>2 DEF Shown
  <2> QED BY <1>3, <1>5, <2>1, <2>2
<1>6. Shown(a, ls, j)
  BY <1>4, <1>5 DEF Shown
<1> QED
  BY <1>6 DEF a

(* The plugins laid over a text, all of them.                              *)
LEMMA OverlaidShown ==
    ASSUME NEW K, NEW V, NEW L, NEW X, NEW active \in Seq(Packs(K, V, L, X)), NEW lang,
           NEW base \in Messages(K, V),
           NEW n \in Nat, NEW ls \in [1..n -> Messages(K, V)], Len(active) <= n,
           \A i \in 1..Len(active) : ls[i] = Cat!TextsIn(active[i], lang),
           Shown(base, ls, Len(active) + 1)
    PROVE  /\ Cat!Overlaid(active, lang, base) \in Messages(K, V)
           /\ Shown(Cat!Overlaid(active, lang, base), ls, 1)
<1> DEFINE a == Len(active)
<1>1. a \in Nat
  OBVIOUS
<1>2. PICK r \in [0..a -> Messages(K, V)] :
          /\ r[0] = base
          /\ \A k \in 1..a : r[k] = Cat!Merged(r[k - 1], Cat!TextsIn(active[a - k + 1], lang))
          /\ Cat!Overlaid(active, lang, base) = r[a]
  BY OverlayTurns
<1> DEFINE ns == {k \in Nat : k <= a => Shown(r[k], ls, a - k + 1)}
<1>3. 0 \in ns
  <2> HIDE DEF a
  <2>1. a - 0 + 1 = a + 1
    BY <1>1
  <2> QED BY <1>2, <2>1 DEF a
<1>4. ASSUME NEW k \in Nat, k \in ns PROVE k + 1 \in ns
  <2> SUFFICES ASSUME k + 1 <= a PROVE Shown(r[k + 1], ls, a - (k + 1) + 1)
    OBVIOUS
  <2> DEFINE j == a - k
  <2>1. j \in 1..a /\ j \in 1..n /\ j + 1 = a - k + 1 /\ j = a - (k + 1) + 1 /\ k + 1 \in 1..a
        /\ (k + 1) - 1 = k /\ k \in 0..a
    BY <1>1
  <2>2. Shown(r[k], ls, j + 1)
    BY <1>1, <1>4, <2>1
  <2> HIDE DEF j, ns
  <2>3. r[k] \in Messages(K, V)
    BY <1>2, <2>1
  <2>4. Shown(Cat!Merged(r[k], ls[j]), ls, j)
    BY <2>1, <2>2, <2>3, LaidOver
  <2>5. r[k + 1] = Cat!Merged(r[(k + 1) - 1], Cat!TextsIn(active[a - (k + 1) + 1], lang))
    BY <1>2, <2>1
  <2>6. ls[j] = Cat!TextsIn(active[j], lang)
    BY <2>1
  <2>7. r[k + 1] = Cat!Merged(r[k], ls[j])
    BY <2>1, <2>5, <2>6
  <2> QED BY <2>1, <2>4, <2>7
<1>5. Nat \subseteq ns
  <2> HIDE DEF ns
  <2> QED BY <1>3, <1>4, Counting
<1>6. Shown(r[a], ls, 1)
  <2>1. a - a + 1 = 1 /\ a <= a
    BY <1>1
  <2>2. a \in ns
    BY <1>1, <1>5
  <2> HIDE DEF a
  <2> QED BY <2>1, <2>2
<1>7. r[a] \in Messages(K, V)
  BY <1>1, <1>2
<1> QED
  BY <1>2, <1>6, <1>7

(* The text that leads is the one that a reader of the layers finds.       *)
LEMMA LeadsFirst ==
    ASSUME NEW K, NEW V, NEW ls \in Seq(Messages(K, V)), NEW x, NEW v, Leads(ls, 1, x, v)
    PROVE  Cat!FirstText(ls, x) = v
<1> DEFINE places == {i \in 1..Len(ls) : x \in DOMAIN ls[i] /\ ls[i][x] # Blank}
           first  == IF places = {} THEN 0 ELSE Cat!Min(places)
<1>1. Cat!FirstText(ls, x) = IF first = 0 THEN Blank ELSE ls[first][x]
  BY DEF Cat!FirstText, Cat!SelectInSeq
<1>2. /\ Len(ls) \in Nat /\ DOMAIN ls = 1..Len(ls) /\ places \in SUBSET (1..Len(ls))
      /\ \A i \in DOMAIN ls : Gives(ls[i], x) <=> i \in places
  BY DEF Gives
<1>3. CASE places = {}
  <2>1. \A i \in DOMAIN ls : ~Gives(ls[i], x)
    BY <1>2, <1>3
  <2>2. v = Blank
    BY <2>1 DEF Leads
  <2> QED BY <1>1, <1>3, <2>2
<1>4. CASE places # {}
  <2> HIDE DEF places
  <2>1. Cat!Min(places) \in places /\ \A m \in places : Cat!Min(places) <= m
    BY <1>2, <1>4, FirstPlace
  <2>5. first = Cat!Min(places)
    BY <1>4
  <2> HIDE DEF first
  <2>2. first \in places /\ first # 0 /\ \A m \in places : first <= m
    BY <1>2, <2>1, <2>5
  <2>3. PICK i \in DOMAIN ls : /\ i >= 1 /\ Gives(ls[i], x) /\ v = ls[i][x]
                               /\ \A j \in DOMAIN ls : 1 <= j /\ j < i => ~Gives(ls[j], x)
    BY <1>2, <2>2 DEF Leads
  <2>4. i = first
    BY <1>2, <2>2, <2>3
  <2> QED BY <1>1, <2>2, <2>3, <2>4
<1> QED
  BY <1>3, <1>4

(* The texts of a catalog are those of its layers.                         *)
LEMMA LayersSeq ==
    ASSUME NEW K, NEW V, NEW L, NEW X, NEW base \in Packs(K, V, L, X),
           NEW theme \in Packs(K, V, L, X), NEW active \in Seq(Packs(K, V, L, X)), NEW lang
    PROVE  LET ls == Cat!Layers(Cat!Catalog(base, theme, active, lang))
               a  == Len(active)
           IN /\ ls \in Seq(Messages(K, V)) /\ Len(ls) = a + 4
              /\ \A i \in 1..a : ls[i] = Cat!TextsIn(active[i], lang)
              /\ ls[a + 1] = Cat!TextsIn(theme, lang)
              /\ ls[a + 2] = Cat!TextsIn(theme, theme.default)
              /\ ls[a + 3] = Cat!TextsIn(base, lang)
              /\ ls[a + 4] = Cat!TextsIn(base, base.default)
<1> DEFINE M    == Messages(K, V)
           c    == Cat!Catalog(base, theme, active, lang)
           a    == Len(active)
           up   == [i \in 1..a |-> Cat!TextsIn(active[i], lang)]
           down == <<Cat!TextsIn(theme, lang), Cat!TextsIn(theme, theme.default),
                     Cat!TextsIn(base, lang), Cat!TextsIn(base, base.default)>>
<1>1. a \in Nat /\ DOMAIN active = 1..a
  OBVIOUS
<1>2. c.plugins = active /\ c.theme = theme /\ c.base = base /\ c.locale = lang
  BY DEF Cat!Catalog
<1>3. Cat!Layers(c) = up \o down
  <2> HIDE DEF c
  <2> QED BY <1>1, <1>2 DEF Cat!Layers
<1>4. down \in Seq(M) /\ Len(down) = 4
  <2> HIDE DEF M
  <2>1. /\ Cat!TextsIn(theme, lang) \in M /\ Cat!TextsIn(theme, theme.default) \in M
        /\ Cat!TextsIn(base, lang) \in M /\ Cat!TextsIn(base, base.default) \in M
    BY TextsTyped DEF M
  <2> QED BY <2>1
<1>5. up \in Seq(M) /\ Len(up) = a
  <2>1. \A i \in 1..a : Cat!TextsIn(active[i], lang) \in M
    BY TextsTyped
  <2> HIDE DEF M, a
  <2>2. up \in [1..a -> M]
    BY <2>1
  <2> QED BY <1>1, <2>2, FunctionIsSeq
<1>6. /\ up \o down \in Seq(M) /\ Len(up \o down) = a + 4
      /\ \A i \in 1..a : (up \o down)[i] = up[i]
      /\ \A i \in 1..4 : (up \o down)[a + i] = down[i]
  <2> HIDE DEF up, down, M, a
  <2>1. \A i \in 1..Len(up) + Len(down) :
            (up \o down)[i] = IF i <= Len(up) THEN up[i] ELSE down[i - Len(up)]
    BY <1>4, <1>5, ConcatProperties
  <2>2. up \o down \in Seq(M) /\ Len(up \o down) = Len(up) + Len(down)
    BY <1>4, <1>5, ConcatProperties
  <2>3. ASSUME NEW i \in 1..4 PROVE (up \o down)[a + i] = down[i]
    <3> DEFINE j == a + i
    <3>1. j \in 1..Len(up) + Len(down) /\ ~(j <= Len(up)) /\ j - Len(up) = i
      BY <1>1, <1>4, <1>5
    <3> HIDE DEF j
    <3>2. (up \o down)[j] = down[j - Len(up)]
      BY <2>1, <3>1
    <3> QED BY <3>1, <3>2 DEF j
  <2> QED BY <1>1, <1>4, <1>5, <2>1, <2>2, <2>3
<1>7. \A i \in 1..a : up[i] = Cat!TextsIn(active[i], lang)
  OBVIOUS
<1>8. /\ down[1] = Cat!TextsIn(theme, lang)
      /\ down[2] = Cat!TextsIn(theme, theme.default)
      /\ down[3] = Cat!TextsIn(base, lang)
      /\ down[4] = Cat!TextsIn(base, base.default)
  OBVIOUS
<1> DEFINE ls == Cat!Layers(c)
<1>9. /\ ls \in Seq(M) /\ Len(ls) = a + 4
      /\ \A i \in 1..a : ls[i] = Cat!TextsIn(active[i], lang)
      /\ \A i \in 1..4 : ls[a + i] = down[i]
  <2> HIDE DEF up, down, M, c, a
  <2> QED BY <1>3, <1>6, <1>7
<1>10. /\ ls[a + 1] = down[1] /\ ls[a + 2] = down[2]
       /\ ls[a + 3] = down[3] /\ ls[a + 4] = down[4]
  <2> HIDE DEF ls, down, a
  <2> QED BY <1>9
<1> QED
  <2> HIDE DEF down, ls, c, M, a
  <2>1. /\ ls \in Seq(M) /\ Len(ls) = a + 4
        /\ \A i \in 1..a : ls[i] = Cat!TextsIn(active[i], lang)
        /\ ls[a + 1] = Cat!TextsIn(theme, lang)
        /\ ls[a + 2] = Cat!TextsIn(theme, theme.default)
        /\ ls[a + 3] = Cat!TextsIn(base, lang)
        /\ ls[a + 4] = Cat!TextsIn(base, base.default)
    BY <1>8, <1>9, <1>10
  <2> QED BY <2>1 DEF ls, c, M, a

(* Theme over default theme, and the plugins over both.                    *)
LEMMA CatalogTexts ==
    ASSUME NEW K, NEW V, NEW L, NEW X, NEW base \in Packs(K, V, L, X),
           NEW theme \in Packs(K, V, L, X), NEW active \in Seq(Packs(K, V, L, X)), NEW lang,
           theme.id = base.id => theme.texts = base.texts /\ theme.default = base.default
    PROVE  LET c == Cat!Catalog(base, theme, active, lang)
           IN /\ c.messages \in Messages(K, V)
              /\ Shown(c.messages, Cat!Layers(c), 1)
<1> DEFINE M  == Messages(K, V)
           c  == Cat!Catalog(base, theme, active, lang)
           ls == Cat!Layers(c)
           a  == Len(active)
           n  == a + 4
           td == Cat!TextsIn(theme, theme.default)
           tl == Cat!TextsIn(theme, lang)
           bd == Cat!TextsIn(base, base.default)
           bl == Cat!TextsIn(base, lang)
           m3 == Cat!Merged(bd, bl)
           m2 == Cat!Merged(m3, td)
           m1 == Cat!Merged(m2, tl)
<1>1. a \in Nat /\ n \in Nat
  OBVIOUS
<1>2. td \in M /\ tl \in M /\ bd \in M /\ bl \in M
  BY TextsTyped
<1>3. m3 \in M /\ m2 \in M /\ m1 \in M
  <2> HIDE DEF td, tl, bd, bl
  <2>1. m3 \in M
    BY <1>2, MergedTexts
  <2>2. m2 \in M
    <3> HIDE DEF m3
    <3> QED BY <1>2, <2>1, MergedTexts
  <2>3. m1 \in M
    <3> HIDE DEF m2
    <3> QED BY <1>2, <2>2, MergedTexts
  <2> QED BY <2>1, <2>2, <2>3
<1>4. /\ ls \in [1..n -> M]
      /\ \A i \in 1..a : ls[i] = Cat!TextsIn(active[i], lang)
      /\ ls[a + 1] = tl /\ ls[a + 2] = td /\ ls[a + 3] = bl /\ ls[a + 4] = bd
  <2>1. /\ ls \in Seq(M) /\ Len(ls) = n
        /\ \A i \in 1..a : ls[i] = Cat!TextsIn(active[i], lang)
        /\ ls[a + 1] = tl /\ ls[a + 2] = td /\ ls[a + 3] = bl /\ ls[a + 4] = bd
    BY LayersSeq
  <2> HIDE DEF ls, n, M
  <2> QED BY <2>1
<1>5. c.messages = Cat!Overlaid(active, lang, m1)
  <2>1. Cat!Localized(base, lang) = m3 /\ Cat!Localized(theme, lang) = Cat!Merged(td, tl)
    BY LocalizedTexts
  <2>2. CASE theme.id = base.id
    <3>1. td = bd /\ tl = bl
      BY <2>2 DEF Cat!TextsIn
    <3>2. m1 = Cat!Merged(m3, Cat!Merged(td, tl))
      <4> HIDE DEF td, tl, m3
      <4> QED BY <1>2, <1>3, MergedTwice
    <3>3. m1 = m3
      <4>1. Cat!Merged(td, tl) = m3
        BY <3>1
      <4>2. Cat!Merged(m3, m3) = m3
        <5> HIDE DEF m3
        <5> QED BY <1>3, MergedSame
      <4> HIDE DEF m3, m1, td, tl
      <4> QED BY <3>2, <4>1, <4>2
    <3>4. c.messages = Cat!Overlaid(active, lang, Cat!Localized(base, lang))
      BY <2>2 DEF Cat!Catalog
    <3> HIDE DEF c, m1, m3
    <3> QED BY <2>1, <3>3, <3>4
  <2>3. CASE theme.id # base.id
    <3>1. m1 = Cat!Merged(m3, Cat!Merged(td, tl))
      <4> HIDE DEF td, tl, m3
      <4> QED BY <1>2, <1>3, MergedTwice
    <3>2. c.messages = Cat!Overlaid(active, lang,
                           Cat!Merged(Cat!Localized(base, lang), Cat!Localized(theme, lang)))
      BY <2>3 DEF Cat!Catalog
    <3> HIDE DEF c, m1, m3, td, tl
    <3> QED BY <2>1, <3>1, <3>2
  <2> QED BY <2>2, <2>3
<1> HIDE DEF ls, c
<1>6. Shown(bd, ls, a + 4)
  <2>1. \A i \in DOMAIN ls : i >= a + 4 <=> i = a + 4
    BY <1>1, <1>4
  <2>2. a + 4 \in DOMAIN ls /\ ls[a + 4] = bd
    BY <1>1, <1>4
  <2> HIDE DEF bd, a, n
  <2>3. \A x \in DOMAIN bd : Leads(ls, a + 4, x, bd[x])
    <3>1. \A j \in DOMAIN ls : a + 4 <= j /\ j < a + 4 => FALSE
      BY <1>1, <1>4 DEF n
    <3>2. a + 4 >= a + 4
      BY <1>1
    <3> QED BY <2>1, <2>2, <3>1, <3>2 DEF Leads, Gives
  <2>4. \A x : Gives(bd, x) => x \in DOMAIN bd
    BY DEF Gives
  <2> QED BY <2>1, <2>2, <2>3, <2>4 DEF Shown
<1>7. /\ a + 1 \in 1..n /\ a + 2 \in 1..n /\ a + 3 \in 1..n
      /\ a + 4 = (a + 3) + 1 /\ a + 3 = (a + 2) + 1 /\ a + 2 = (a + 1) + 1 /\ a <= n
  BY <1>1
<1> HIDE DEF n, M
<1>8. Shown(m3, ls, a + 3)
  <2> HIDE DEF bd, bl, a
  <2>1. Shown(bd, ls, (a + 3) + 1)
    BY <1>6, <1>7
  <2> QED BY <1>1, <1>2, <1>4, <1>7, <2>1, LaidOver DEF M
<1>9. Shown(m2, ls, a + 2)
  <2> HIDE DEF m3, td, a
  <2>1. Shown(m3, ls, (a + 2) + 1)
    BY <1>7, <1>8
  <2> QED BY <1>1, <1>2, <1>3, <1>4, <1>7, <2>1, LaidOver DEF M
<1>10. Shown(m1, ls, a + 1)
  <2> HIDE DEF m2, tl, a
  <2>1. Shown(m2, ls, (a + 1) + 1)
    BY <1>7, <1>9
  <2> QED BY <1>1, <1>2, <1>3, <1>4, <1>7, <2>1, LaidOver DEF M
<1>11. c.messages \in M /\ Shown(c.messages, ls, 1)
  <2> HIDE DEF m1
  <2> QED BY <1>1, <1>3, <1>4, <1>5, <1>7, <1>10, OverlaidShown DEF M
<1> QED
  BY <1>11 DEF M, ls, c

(* With the languages of its plugins a theme is a pack like before.        *)
LEMMA ThemeSpeaks ==
    ASSUME NEW K, NEW V, NEW L, NEW X, NEW chosen \in Packs(K, V, L, X),
           NEW active \in Seq(Packs(K, V, L, X)), NEW required
    PROVE  LET theme == Cat!WithPluginLocales(chosen, active, required)
           IN /\ theme \in Packs(K, V, L, X)
              /\ theme.id = chosen.id /\ theme.texts = chosen.texts
              /\ theme.default = chosen.default
              /\ \A l \in theme.locales : \/ l \in chosen.locales
                                          \/ \E i \in DOMAIN active : Cat!Covers(active[i], l, required)
<1> DEFINE more == UNION {{l \in active[i].locales : Cat!Covers(active[i], l, required)} :
                             i \in DOMAIN active}
           theme == [chosen EXCEPT !.locales = @ \cup more]
<1>1. Cat!WithPluginLocales(chosen, active, required) = theme
  BY DEF Cat!WithPluginLocales
<1>2. \A i \in DOMAIN active : active[i].locales \in SUBSET L
  BY DEF Packs
<1>3. more \in SUBSET L /\ \A l \in more : \E i \in DOMAIN active : Cat!Covers(active[i], l, required)
  BY <1>2
<1>4. chosen \in [id : X, type : X, source : X, bundle : X \cup {NoId}, default : L,
                  locales : SUBSET L, texts : TextsOf(K, V, L)]
  BY DEF Packs
<1> HIDE DEF more
<1>5. /\ theme \in [id : X, type : X, source : X, bundle : X \cup {NoId}, default : L,
                    locales : SUBSET L, texts : TextsOf(K, V, L)]
      /\ theme.id = chosen.id /\ theme.texts = chosen.texts /\ theme.default = chosen.default
      /\ theme.locales = chosen.locales \cup more
  BY <1>3, <1>4
<1> HIDE DEF theme
<1>6. theme \in Packs(K, V, L, X)
  BY <1>5 DEF Packs
<1>7. \A l \in theme.locales : \/ l \in chosen.locales
                               \/ \E i \in DOMAIN active : Cat!Covers(active[i], l, required)
  BY <1>3, <1>5
<1> QED
  BY <1>1, <1>5, <1>6, <1>7

(* In a language that only plugins know, they say all that the theme says. *)
LEMMA PluginsTranslate ==
    ASSUME NEW K, NEW V, NEW L, NEW X, NEW base \in Packs(K, V, L, X),
           NEW chosen \in Packs(K, V, L, X), NEW active \in Seq(Packs(K, V, L, X)),
           NEW requested, chosen.locales = DOMAIN chosen.texts,
           chosen.id = base.id => chosen.texts = base.texts /\ chosen.default = base.default
    PROVE  LET c == Cat!WithPlugins(base, chosen, active, requested)
           IN Cat!TextsRight(c, Cat!Layers(c))
<1> DEFINE required == Cat!Required(base, chosen)
           theme    == Cat!WithPluginLocales(chosen, active, required)
           lang     == Cat!LocaleOf(requested, theme)
           c        == Cat!Catalog(base, theme, active, lang)
           ls       == Cat!Layers(c)
           a        == Len(active)
<1>1. Cat!WithPlugins(base, chosen, active, requested) = c
  BY DEF Cat!WithPlugins, Cat!WithTheme
<1>2. /\ theme \in Packs(K, V, L, X)
      /\ theme.id = chosen.id /\ theme.texts = chosen.texts /\ theme.default = chosen.default
      /\ \A l \in theme.locales : \/ l \in chosen.locales
                                  \/ \E i \in DOMAIN active : Cat!Covers(active[i], l, required)
  <2> HIDE DEF required
  <2> QED BY ThemeSpeaks
<1>3. (lang = requested /\ lang \in theme.locales) \/ lang = theme.default
  BY DEF Cat!LocaleOf
<1>4. /\ c.plugins = active /\ c.theme = theme /\ c.base = base /\ c.locale = lang
  BY DEF Cat!Catalog
<1> HIDE DEF theme, lang
<1>5. c.messages \in Messages(K, V) /\ Shown(c.messages, ls, 1)
  BY <1>2, CatalogTexts
<1>6. /\ ls \in Seq(Messages(K, V)) /\ Len(ls) = a + 4
      /\ \A i \in 1..a : ls[i] = Cat!TextsIn(active[i], lang)
  BY <1>2, LayersSeq
<1> HIDE DEF ls, c
<1>7. \A k \in DOMAIN c.messages : c.messages[k] = Cat!FirstText(ls, k)
  <2> SUFFICES ASSUME NEW k \in DOMAIN c.messages
               PROVE  c.messages[k] = Cat!FirstText(ls, k)
    OBVIOUS
  <2>1. Leads(ls, 1, k, c.messages[k])
    BY <1>5 DEF Shown
  <2> QED BY <1>6, <2>1, LeadsFirst
<1>8. \A i \in DOMAIN ls : \A k \in DOMAIN ls[i] : ls[i][k] # Blank => k \in DOMAIN c.messages
  <2>1. \A i \in DOMAIN ls : i >= 1
    BY <1>6
  <2> QED BY <1>5, <2>1 DEF Shown, Gives
<1>9. ASSUME lang \notin DOMAIN theme.texts, NEW k \in required
      PROVE  \E i \in DOMAIN active : /\ k \in DOMAIN Cat!TextsIn(active[i], lang)
                                      /\ c.messages[k] = active[i].texts[lang][k]
  <2>1. theme.default \in DOMAIN theme.texts
    BY <1>2 DEF Packs
  <2>2. lang \in theme.locales /\ lang \notin chosen.locales
    BY <1>2, <1>3, <1>9, <2>1
  <2>3. PICK i \in DOMAIN active : Cat!Covers(active[i], lang, required)
    BY <1>2, <2>2
  <2>4. Gives(Cat!TextsIn(active[i], lang), k)
    BY <1>9, <2>3 DEF Cat!Covers, Gives
  <2>5. a \in Nat /\ DOMAIN active = 1..a /\ DOMAIN ls = 1..a + 4
    BY <1>6
  <2>6. i \in DOMAIN ls /\ i >= 1 /\ Gives(ls[i], k)
    BY <1>6, <2>4, <2>5
  <2>7. k \in DOMAIN c.messages
    BY <1>5, <2>6 DEF Shown
  <2>8. Leads(ls, 1, k, c.messages[k])
    BY <1>5, <2>7 DEF Shown
  <2>9. PICK j \in DOMAIN ls :
              /\ j >= 1 /\ Gives(ls[j], k) /\ c.messages[k] = ls[j][k]
              /\ \A h \in DOMAIN ls : 1 <= h /\ h < j => ~Gives(ls[h], k)
    BY <2>6, <2>8 DEF Leads
  <2>10. ~(i < j)
    BY <2>6, <2>9
  <2>11. j \in 1..a
    BY <2>5, <2>6, <2>9, <2>10
  <2>12. ls[j] = Cat!TextsIn(active[j], lang)
    BY <1>6, <2>11
  <2>13. lang \in DOMAIN active[j].texts
    <3>1. CASE lang \notin DOMAIN active[j].texts
      <4>1. Cat!TextsIn(active[j], lang) = <<>>
        BY <3>1 DEF Cat!TextsIn
      <4>2. k \in DOMAIN <<>>
        BY <2>9, <2>12, <4>1 DEF Gives
      <4> QED BY <4>2
    <3> QED BY <3>1
  <2>14. Cat!TextsIn(active[j], lang) = active[j].texts[lang]
    BY <2>13 DEF Cat!TextsIn
  <2>15. /\ k \in DOMAIN Cat!TextsIn(active[j], lang)
         /\ c.messages[k] = active[j].texts[lang][k]
    BY <2>9, <2>12, <2>14 DEF Gives
  <2> QED BY <2>5, <2>11, <2>15
<1>10. Cat!Required(base, theme) = required
  <2>1. \A l : Cat!TextsIn(theme, l) = Cat!TextsIn(chosen, l)
    BY <1>2 DEF Cat!TextsIn
  <2>2. \A l : Cat!Localized(theme, l) = Cat!Localized(chosen, l)
    BY <1>2, <2>1 DEF Cat!Localized
  <2> QED BY <1>2, <2>2 DEF Cat!Required
<1>11. Cat!TextsRight(c, ls)
  <2>1. c.locale \notin DOMAIN c.theme.texts =>
          \A k \in Cat!Required(c.base, c.theme) :
             \E i \in DOMAIN c.plugins : /\ k \in DOMAIN Cat!TextsIn(c.plugins[i], c.locale)
                                         /\ c.messages[k] = c.plugins[i].texts[c.locale][k]
    <3> HIDE DEF required
    <3> QED BY <1>4, <1>9, <1>10
  <2> HIDE DEF required
  <2> QED BY <1>7, <1>8, <2>1 DEF Cat!TextsRight
<1> QED
  BY <1>1, <1>11 DEF ls

(* The place of an id is where the first pack with it is.                  *)
LEMMA Placed ==
    ASSUME NEW S, NEW packs \in Seq(S), NEW id
    PROVE  /\ Cat!Place(packs, id) # 0 <=> \E i \in DOMAIN packs : packs[i].id = id
           /\ Cat!Place(packs, id) # 0 =>
                 /\ Cat!Place(packs, id) \in DOMAIN packs
                 /\ packs[Cat!Place(packs, id)].id = id
           /\ \A i \in DOMAIN packs : packs[i].id = id => Cat!Place(packs, id) <= i
<1> DEFINE places == {i \in 1..Len(packs) : packs[i].id = id}
           first  == IF places = {} THEN 0 ELSE Cat!Min(places)
<1>1. Cat!Place(packs, id) = first
  BY DEF Cat!Place, Cat!SelectInSeq
<1>2. Len(packs) \in Nat /\ DOMAIN packs = 1..Len(packs) /\ places \in SUBSET (1..Len(packs))
  OBVIOUS
<1>3. \A i \in DOMAIN packs : packs[i].id = id <=> i \in places
  BY <1>2
<1>4. places # {} => Cat!Min(places) \in places /\ \A m \in places : Cat!Min(places) <= m
  <2> HIDE DEF places
  <2> QED BY <1>2, FirstPlace
<1>5. \A i \in places : i # 0 /\ i \in DOMAIN packs /\ packs[i].id = id
  BY <1>2
<1>6. places = {} \/ first = Cat!Min(places)
  OBVIOUS
<1>7. places = {} => first = 0
  OBVIOUS
<1> HIDE DEF places, first
<1> QED
  BY <1>1, <1>2, <1>3, <1>4, <1>5, <1>6, <1>7

(* Ids are asked for in their order, once, as far as there is a pack.      *)
Once(ids) == \A i, j \in DOMAIN ids : ids[i] = ids[j] => i = j
Asked(packs, ids) == [i \in DOMAIN ids |-> Cat!Named(packs, ids[i])]
There(packs, ids) == \A i \in DOMAIN ids : Cat!Place(packs, ids[i]) # 0

(* One more id that is new and has a pack.                                 *)
LEMMA AskedOnce ==
    ASSUME NEW X, NEW S, NEW packs \in Seq(S), NEW s \in Seq(X), NEW x \in X, x \notin Cat!ToSet(s),
           Cat!Place(packs, x) # 0, Once(s), There(packs, s)
    PROVE  Append(s, x) \in Seq(X) /\ Once(Append(s, x)) /\ There(packs, Append(s, x))
<1> DEFINE t == Append(s, x)
<1>1. /\ t \in Seq(X) /\ Len(s) \in Nat /\ DOMAIN s = 1..Len(s) /\ DOMAIN t = 1..Len(s) + 1
      /\ \A i \in 1..Len(s) : t[i] = s[i]
      /\ t[Len(s) + 1] = x
  BY AppendProperties
<1> HIDE DEF t
<1>2. \A i \in 1..Len(s) : s[i] # x
  BY <1>1 DEF Cat!ToSet
<1>3. \A i \in DOMAIN t : i \in 1..Len(s) \/ i = Len(s) + 1
  BY <1>1
<1>4. Once(t)
  BY <1>1, <1>2, <1>3 DEF Once
<1>5. There(packs, t)
  BY <1>1, <1>3 DEF There
<1> QED
  BY <1>1, <1>4, <1>5 DEF t

(* The ids asked for are gone through one by one,                          *)
LEMMA OrderTurns ==
    ASSUME NEW X, NEW S, NEW packs \in Seq(S), NEW requested \in Seq(X)
    PROVE  LET n == Len(requested)
           IN \E r \in [0..n -> Seq(X)] :
                 /\ r[0] = <<>>
                 /\ \A k \in 1..n :
                       r[k] = IF \/ requested[k] \in Cat!ToSet(r[k - 1])
                                 \/ Cat!Place(packs, requested[k]) = 0
                              THEN r[k - 1] ELSE Append(r[k - 1], requested[k])
                 /\ Cat!Ordered(packs, requested) = Asked(packs, r[n])
<1> DEFINE n     == Len(requested)
           D     == Seq(X)
           steps == [i \in 1..n |-> [s \in D |->
                       IF requested[i] \in Cat!ToSet(s) \/ Cat!Place(packs, requested[i]) = 0
                       THEN s ELSE Append(s, requested[i])]]
           f     == CHOOSE h : h = [t \in SUBSET DOMAIN requested |->
                       IF t = {} THEN <<>>
                       ELSE IF \/ requested[Cat!Max(t)] \in Cat!ToSet(h[t \ {Cat!Max(t)}])
                               \/ Cat!Place(packs, requested[Cat!Max(t)]) = 0
                            THEN h[t \ {Cat!Max(t)}]
                            ELSE Append(h[t \ {Cat!Max(t)}], requested[Cat!Max(t)])]
<1>1. n \in Nat /\ DOMAIN requested = 1..n /\ \A i \in 1..n : requested[i] \in X
  OBVIOUS
<1>2. steps \in [1..n -> [D -> D]] /\ <<>> \in D
  <2>1. \A i \in 1..n : \A s \in D : Append(s, requested[i]) \in D
    BY <1>1, AppendProperties
  <2>2. <<>> \in D
    OBVIOUS
  <2> HIDE DEF n, D
  <2> QED BY <2>1, <2>2
<1>3. \A t \in SUBSET (1..n) : t # {} => Cat!Max(t) \in 1..n
  <2> HIDE DEF n
  <2> QED BY <1>1, LastIndex
<1>4. \E g : g = [t \in SUBSET DOMAIN requested |->
                    IF t = {} THEN <<>>
                    ELSE IF \/ requested[Cat!Max(t)] \in Cat!ToSet(g[t \ {Cat!Max(t)}])
                            \/ Cat!Place(packs, requested[Cat!Max(t)]) = 0
                         THEN g[t \ {Cat!Max(t)}]
                         ELSE Append(g[t \ {Cat!Max(t)}], requested[Cat!Max(t)])]
  <2>1. PICK g \in [SUBSET (1..n) -> D] :
            \A t \in SUBSET (1..n) : FoldStep(g, t, n, D, <<>>, steps)
    <3> HIDE DEF n, steps, D
    <3> QED BY <1>1, <1>2, FoldSteps
  <2>2. \A t : Cat!Max(t) = I!Max(t)
    BY LastIndex
  <2>3. ASSUME NEW t \in SUBSET (1..n)
        PROVE  g[t] = IF t = {} THEN <<>>
                      ELSE IF \/ requested[Cat!Max(t)] \in Cat!ToSet(g[t \ {Cat!Max(t)}])
                              \/ Cat!Place(packs, requested[Cat!Max(t)]) = 0
                           THEN g[t \ {Cat!Max(t)}]
                           ELSE Append(g[t \ {Cat!Max(t)}], requested[Cat!Max(t)])
    <3> HIDE DEF n, D
    <3> QED BY <2>1, <2>2 DEF FoldStep
  <2>4. DOMAIN g = SUBSET DOMAIN requested
    BY <1>1
  <2> HIDE DEF n, D
  <2> QED BY <1>1, <2>3, <2>4
<1>5. f = [t \in SUBSET DOMAIN requested |->
             IF t = {} THEN <<>>
             ELSE IF \/ requested[Cat!Max(t)] \in Cat!ToSet(f[t \ {Cat!Max(t)}])
                     \/ Cat!Place(packs, requested[Cat!Max(t)]) = 0
                  THEN f[t \ {Cat!Max(t)}]
                  ELSE Append(f[t \ {Cat!Max(t)}], requested[Cat!Max(t)])]
  <2> HIDE DEF n
  <2> QED BY <1>4
<1>6. PICK r : Turns(r, n, D, <<>>, steps) /\ \A k \in 0..n : r[k] = f[1..k]
  <2>1. {} \in SUBSET (1..n)
    OBVIOUS
  <2> HIDE DEF f, n
  <2>2. f[{}] = <<>>
    BY <1>1, <1>5, <2>1
  <2>3. ASSUME NEW t \in SUBSET (1..n), t # {}, f[t \ {Cat!Max(t)}] \in D
        PROVE  f[t] = steps[Cat!Max(t)][f[t \ {Cat!Max(t)}]]
    <3> HIDE DEF D
    <3> QED BY <1>1, <1>3, <1>5, <2>3
  <2>4. FoldsBy(f, n, D, <<>>, steps)
    <3> HIDE DEF steps, D
    <3>1. n \in Nat /\ <<>> \in D /\ steps \in [1..n -> [D -> D]]
      BY <1>1, <1>2
    <3> QED BY <2>2, <2>3, <3>1 DEF FoldsBy
  <2> HIDE DEF steps, D
  <2> QED BY <2>4, FoldTurns DEF HasTurns
<1>7. Cat!Ordered(packs, requested) = Asked(packs, f[1..n])
  <2>1. Cat!Ordered(packs, requested) =
            [i \in DOMAIN f[DOMAIN requested] |-> Cat!Named(packs, f[DOMAIN requested][i])]
    BY DEF Cat!Ordered, Cat!FoldLeft, Cat!MapThenFoldSet
  <2> HIDE DEF f, n
  <2> QED BY <1>1, <2>1 DEF Asked
<1>8. /\ r \in [0..n -> D] /\ r[0] = <<>> /\ r[n] = f[1..n]
      /\ \A k \in 1..n : r[k] = IF \/ requested[k] \in Cat!ToSet(r[k - 1])
                                   \/ Cat!Place(packs, requested[k]) = 0
                                THEN r[k - 1] ELSE Append(r[k - 1], requested[k])
  <2> HIDE DEF f, n, D
  <2>1. r \in [0..n -> D] /\ r[0] = <<>>
    BY <1>6 DEF Turns
  <2>2. \A k \in 1..n : r[k - 1] \in D /\ r[k] = steps[k][r[k - 1]]
    BY <1>6 DEF Turns
  <2>3. r[n] = f[1..n]
    BY <1>1, <1>6
  <2> QED BY <1>1, <2>1, <2>2, <2>3
<1> QED
  <2> HIDE DEF f
  <2> QED BY <1>7, <1>8

(* What Ordered finds are the packs of a list of ids, each id once and of a *)
(* pack that is there; a list asked for that is already so is that list.    *)
LEMMA OrderedOnce ==
    ASSUME NEW X, NEW S, NEW packs \in Seq(S), NEW requested \in Seq(X)
    PROVE  \E ids \in Seq(X) :
              /\ Once(ids) /\ There(packs, ids)
              /\ Cat!Ordered(packs, requested) = Asked(packs, ids)
              /\ Once(requested) /\ There(packs, requested) => ids = requested
<1> DEFINE n == Len(requested)
<1>1. n \in Nat /\ DOMAIN requested = 1..n /\ \A i \in 1..n : requested[i] \in X
  OBVIOUS
<1> DEFINE Same(s, k) == Len(s) = k /\ \A i \in 1..k : s[i] = requested[i]
           Right(s, k) == /\ Once(s) /\ There(packs, s)
                          /\ Once(requested) /\ There(packs, requested) => Same(s, k)
<1>2. PICK r \in [0..n -> Seq(X)] :
          /\ r[0] = <<>>
          /\ \A k \in 1..n :
                r[k] = IF \/ requested[k] \in Cat!ToSet(r[k - 1])
                          \/ Cat!Place(packs, requested[k]) = 0
                       THEN r[k - 1] ELSE Append(r[k - 1], requested[k])
          /\ Cat!Ordered(packs, requested) = Asked(packs, r[n])
  BY OrderTurns
<1> DEFINE ns == {k \in Nat : k <= n => Right(r[k], k)}
<1> HIDE DEF n
<1>3. 0 \in ns
  <2>1. DOMAIN <<>> = {} /\ Len(<<>>) = 0 /\ 1..0 = {}
    OBVIOUS
  <2> QED BY <1>2, <2>1 DEF Once, There
<1>4. ASSUME NEW k \in Nat, k \in ns PROVE k + 1 \in ns
  <2> SUFFICES ASSUME k + 1 <= n PROVE Right(r[k + 1], k + 1)
    OBVIOUS
  <2>1. k + 1 \in 1..n /\ (k + 1) - 1 = k /\ k \in 0..n /\ k <= n
    BY <1>1
  <2> DEFINE x == requested[k + 1]
             s == r[k]
  <2>2. s \in Seq(X) /\ x \in X /\ Right(s, k)
    BY <1>1, <1>2, <1>4, <2>1
  <2>3. r[k + 1] = IF x \in Cat!ToSet(s) \/ Cat!Place(packs, x) = 0 THEN s ELSE Append(s, x)
    BY <1>2, <2>1
  <2> HIDE DEF s, ns
  <2>4. ASSUME Once(requested), There(packs, requested)
        PROVE  x \notin Cat!ToSet(s) /\ Cat!Place(packs, x) # 0
    <3>1. Same(s, k)
      BY <2>2, <2>4
    <3>2. DOMAIN s = 1..k
      BY <2>2, <3>1
    <3>3. \A i \in 1..k : i \in DOMAIN requested /\ i # k + 1 /\ s[i] = requested[i]
      BY <1>1, <2>1, <3>1
    <3>4. \A i \in DOMAIN s : s[i] # x
      BY <1>1, <2>1, <2>4, <3>2, <3>3 DEF Once
    <3>5. k + 1 \in DOMAIN requested
      BY <1>1, <2>1
    <3> QED BY <2>4, <3>4, <3>5 DEF Cat!ToSet, There
  <2>5. CASE x \in Cat!ToSet(s) \/ Cat!Place(packs, x) = 0
    <3> HIDE DEF x
    <3> QED BY <2>2, <2>3, <2>4, <2>5
  <2>6. CASE ~(x \in Cat!ToSet(s) \/ Cat!Place(packs, x) = 0)
    <3> DEFINE t == Append(s, x)
    <3>1. r[k + 1] = t
      BY <2>3, <2>6
    <3>2. Once(t) /\ There(packs, t)
      <4> HIDE DEF x
      <4> QED BY <2>2, <2>6, AskedOnce
    <3>3. /\ Len(t) = Len(s) + 1 /\ Len(s) \in Nat
          /\ \A i \in 1..Len(s) : t[i] = s[i]
          /\ t[Len(s) + 1] = x
      <4> HIDE DEF x
      <4> QED BY <2>2, AppendProperties
    <3>4. ASSUME Once(requested), There(packs, requested) PROVE Same(t, k + 1)
      <4>1. Len(s) = k /\ \A i \in 1..k : s[i] = requested[i]
        BY <2>2, <3>4
      <4> HIDE DEF t
      <4>2. \A i \in 1..k + 1 : i \in 1..k \/ i = k + 1
        OBVIOUS
      <4> QED BY <3>3, <4>1, <4>2
    <3> HIDE DEF t
    <3> QED BY <3>1, <3>2, <3>4
  <2> QED BY <2>5, <2>6
<1>5. Nat \subseteq ns
  <2> HIDE DEF ns
  <2> QED BY <1>3, <1>4, Counting
<1>6. Right(r[n], n)
  <2> HIDE DEF Right
  <2>1. n <= n
    BY <1>1
  <2>2. n \in ns
    <3> HIDE DEF ns
    <3> QED BY <1>1, <1>5
  <2> QED BY <2>1, <2>2
<1>7. r[n] \in Seq(X)
  BY <1>1, <1>2
<1>8. Same(r[n], n) => r[n] = requested
  <2> SUFFICES ASSUME Same(r[n], n) PROVE r[n] = requested
    OBVIOUS
  <2>1. Len(r[n]) = n /\ \A i \in 1..n : r[n][i] = requested[i]
    OBVIOUS
  <2>2. Len(requested) = n
    BY DEF n
  <2> HIDE DEF Same
  <2> QED BY <1>1, <1>7, <2>1, <2>2, SeqEqual
<1> QED
  <2> HIDE DEF Same
  <2> QED BY <1>2, <1>6, <1>7, <1>8

(* Asked for what was found, the packs are found again.                    *)
LEMMA OrderedAgain ==
    ASSUME NEW X, NEW S, NEW packs \in Seq(S), NEW requested \in Seq(X)
    PROVE  LET active == Cat!Ordered(packs, requested)
               order  == [i \in DOMAIN active |-> active[i].id]
           IN active \in Seq(S) /\ Cat!Ordered(packs, order) = active
<1>1. PICK ids \in Seq(X) :
          /\ Once(ids) /\ There(packs, ids)
          /\ Cat!Ordered(packs, requested) = Asked(packs, ids)
  BY OrderedOnce
<1> DEFINE n      == Len(ids)
           active == [i \in 1..n |-> Cat!Named(packs, ids[i])]
           order  == [i \in 1..n |-> active[i].id]
<1>2. n \in Nat /\ DOMAIN ids = 1..n /\ ids \in [1..n -> X]
  OBVIOUS
<1> HIDE DEF n
<1>3. \A i \in 1..n : active[i] \in S /\ active[i].id = ids[i]
  <2> SUFFICES ASSUME NEW i \in 1..n PROVE active[i] \in S /\ active[i].id = ids[i]
    OBVIOUS
  <2>1. Cat!Place(packs, ids[i]) # 0
    BY <1>1, <1>2 DEF There
  <2>2. Cat!Place(packs, ids[i]) \in DOMAIN packs /\ packs[Cat!Place(packs, ids[i])].id = ids[i]
    BY <2>1, Placed
  <2>3. active[i] = packs[Cat!Place(packs, ids[i])]
    BY DEF Cat!Named
  <2> QED BY <2>2, <2>3
<1>4. active \in Seq(S)
  <2>1. active \in [1..n -> S]
    BY <1>3
  <2> HIDE DEF active
  <2> QED BY <1>2, <2>1, FunctionIsSeq
<1>5. order = ids
  BY <1>2, <1>3
<1>6. Cat!Ordered(packs, requested) = active
  BY <1>1, <1>2 DEF Asked
<1>7. Cat!Ordered(packs, ids) = active
  <2>1. PICK again \in Seq(X) :
            /\ Cat!Ordered(packs, ids) = Asked(packs, again)
            /\ Once(ids) /\ There(packs, ids) => again = ids
    BY OrderedOnce
  <2>2. again = ids
    BY <1>1, <2>1
  <2> QED BY <1>1, <1>6, <2>1, <2>2
<1>8. DOMAIN active = 1..n
  OBVIOUS
<1> HIDE DEF active
<1> QED
  BY <1>4, <1>5, <1>6, <1>7, <1>8

(* The pack of an id that is there.                                        *)
LEMMA NamedThere ==
    ASSUME NEW S, NEW packs \in Seq(S), NEW id, Cat!Place(packs, id) # 0
    PROVE  Cat!Named(packs, id) \in S /\ Cat!Named(packs, id).id = id
           /\ \E i \in DOMAIN packs : Cat!Named(packs, id) = packs[i]
<1>1. Cat!Place(packs, id) \in DOMAIN packs /\ packs[Cat!Place(packs, id)].id = id
  BY Placed
<1> QED
  BY <1>1 DEF Cat!Named

(* What is written back leads to what was found.                           *)
LoadedRight(themes, plugins, c) ==
    /\ c.ok <=> /\ themes.ok /\ plugins.ok /\ Cat!Unique(plugins.packs)
                /\ \E i \in DOMAIN themes.packs : themes.packs[i].id = DefaultId
    /\ c.ok => /\ Cat!TextsRight(c, Cat!Layers(c))
               /\ Cat!FromPacks(themes, plugins, c.selection, c.locale, c.order) = c

(* From packs that can be told apart, the right catalog.                   *)
LEMMA FromPacksRight ==
    ASSUME NEW K, NEW V, NEW L, NEW X,
           NEW themes \in [ok : BOOLEAN, packs : Seq(Packs(K, V, L, X))],
           NEW plugins \in [ok : BOOLEAN, packs : Seq(Packs(K, V, L, X))],
           \A i \in DOMAIN themes.packs : themes.packs[i].locales = DOMAIN themes.packs[i].texts,
           NEW selection \in [enabled : BOOLEAN, id : X \cup {NoId}], NEW locale, NEW order \in Seq(X)
    PROVE  LoadedRight(themes, plugins, Cat!FromPacks(themes, plugins, selection, locale, order))
<1> DEFINE P     == Packs(K, V, L, X)
           fails == \/ ~themes.ok \/ ~plugins.ok \/ ~Cat!Unique(plugins.packs)
                    \/ Cat!Place(themes.packs, DefaultId) = 0
           pick(e, id) == IF e /\ Cat!Place(themes.packs, id) # 0
                          THEN Cat!Named(themes.packs, id)
                          ELSE Cat!Named(themes.packs, DefaultId)
           c     == Cat!FromPacks(themes, plugins, selection, locale, order)
<1>1. themes.packs \in Seq(P) /\ plugins.packs \in Seq(P)
  OBVIOUS
<1>2. Cat!Place(themes.packs, DefaultId) # 0 <=>
          \E i \in DOMAIN themes.packs : themes.packs[i].id = DefaultId
  BY <1>1, Placed
<1>3. CASE fails
  <2>1. c = [ok |-> FALSE]
    BY <1>3 DEF Cat!FromPacks, Cat!NoCatalog
  <2>2. c.ok = FALSE
    BY <2>1
  <2> QED BY <1>2, <1>3, <2>2 DEF LoadedRight
<1>4. CASE ~fails
  <2> DEFINE base   == Cat!Named(themes.packs, DefaultId)
             chosen == pick(selection.enabled, selection.id)
             active == Cat!Ordered(plugins.packs, order)
  <2>1. \A s, l, o : Cat!FromPacks(themes, plugins, s, l, o) =
            Cat!WithPlugins(base, pick(s.enabled, s.id), Cat!Ordered(plugins.packs, o), l)
    BY <1>4 DEF Cat!FromPacks
  <2>2. /\ base \in P /\ base.id = DefaultId
        /\ \A id : Cat!Place(themes.packs, id) # 0 =>
              /\ Cat!Named(themes.packs, id) \in P
              /\ Cat!Named(themes.packs, id).id = id
              /\ Cat!Named(themes.packs, id).locales = DOMAIN Cat!Named(themes.packs, id).texts
    <3> HIDE DEF P
    <3> QED BY <1>1, <1>4, NamedThere
  <2>3. /\ chosen \in P /\ chosen.locales = DOMAIN chosen.texts
        /\ chosen = Cat!Named(themes.packs, chosen.id)
        /\ Cat!Place(themes.packs, chosen.id) # 0
    <3> HIDE DEF P
    <3> QED BY <1>4, <2>2
  <2>4. /\ active \in Seq(P)
        /\ Cat!Ordered(plugins.packs, [i \in DOMAIN active |-> active[i].id]) = active
    <3> HIDE DEF P
    <3> QED BY <1>1, OrderedAgain
  <2> DEFINE required == Cat!Required(base, chosen)
             theme    == Cat!WithPluginLocales(chosen, active, required)
             lang     == Cat!LocaleOf(locale, theme)
  <2>5. c = Cat!Catalog(base, theme, active, lang)
    <3>1. c = Cat!WithPlugins(base, chosen, active, locale)
      <4> HIDE DEF pick, active, base
      <4> QED BY <2>1 DEF active
    <3> HIDE DEF c, chosen, active, base
    <3> QED BY <3>1 DEF Cat!WithPlugins, Cat!WithTheme
  <2> HIDE DEF c
  <2>6. theme \in P /\ theme.id = chosen.id
    <3> HIDE DEF required, active, chosen
    <3> QED BY <2>3, <2>4, ThemeSpeaks
  <2> HIDE DEF theme, lang
  <2>7. /\ c.ok = TRUE /\ c.locale = lang
        /\ c.selection.enabled = (chosen.id # DefaultId) /\ c.selection.id = chosen.id
        /\ c.order = [i \in DOMAIN active |-> active[i].id]
    <3> HIDE DEF base, chosen, active, P, pick, required, fails
    <3> QED BY <2>5, <2>6 DEF Cat!Catalog
  <2>8. Cat!TextsRight(c, Cat!Layers(c))
    <3>1. c = Cat!WithPlugins(base, chosen, active, locale)
      <4> HIDE DEF base, chosen, active, required
      <4> QED BY <2>5 DEF Cat!WithPlugins, Cat!WithTheme, theme, lang, required
    <3>2. chosen.id = base.id => chosen = base
      BY <2>2, <2>3
    <3> HIDE DEF base, chosen, active
    <3> QED BY <2>2, <2>3, <2>4, <3>1, <3>2, PluginsTranslate
  <2>9. pick(c.selection.enabled, c.selection.id) = chosen
    <3>1. CASE chosen.id = DefaultId
      <4> HIDE DEF chosen
      <4> QED BY <2>3, <2>7, <3>1
    <3>2. CASE chosen.id # DefaultId
      <4> HIDE DEF chosen
      <4> QED BY <2>3, <2>7, <3>2
    <3> QED BY <3>1, <3>2
  <2>10. Cat!LocaleOf(lang, theme) = lang
    BY DEF Cat!LocaleOf, lang
  <2>11. Cat!FromPacks(themes, plugins, c.selection, c.locale, c.order) = c
    <3>1. Cat!Ordered(plugins.packs, c.order) = active
      <4> HIDE DEF active
      <4> QED BY <2>4, <2>7
    <3>2. Cat!FromPacks(themes, plugins, c.selection, c.locale, c.order) =
             Cat!WithPlugins(base, pick(c.selection.enabled, c.selection.id),
                             Cat!Ordered(plugins.packs, c.order), c.locale)
      <4> HIDE DEF base, pick
      <4> QED BY <2>1
    <3>3. Cat!FromPacks(themes, plugins, c.selection, c.locale, c.order) =
             Cat!WithPlugins(base, chosen, active, lang)
      <4> HIDE DEF base, pick, chosen, active
      <4> QED BY <2>7, <2>9, <3>1, <3>2
    <3>4. Cat!WithPlugins(base, chosen, active, lang) =
             Cat!Catalog(base, theme, active, Cat!LocaleOf(lang, theme))
      <4> HIDE DEF base, chosen, active, required
      <4> QED BY DEF Cat!WithPlugins, Cat!WithTheme, theme, required
    <3> HIDE DEF base, chosen, active
    <3> QED BY <2>5, <2>10, <3>3, <3>4
  <2> QED
    <3> HIDE DEF base, chosen, active
    <3>1. c.ok
      BY <2>7
    <3>2. /\ themes.ok /\ plugins.ok /\ Cat!Unique(plugins.packs)
          /\ \E i \in DOMAIN themes.packs : themes.packs[i].id = DefaultId
      BY <1>2, <1>4
    <3> HIDE DEF P, fails, pick, required
    <3> QED BY <2>8, <2>11, <3>1, <3>2 DEF c, LoadedRight
<1> QED
  BY <1>3, <1>4

(* A pack as a scan makes it knows the languages it has texts in.          *)
Made(K, V, L, X)        == {p \in Packs(K, V, L, X) : p.locales = DOMAIN p.texts}
MadeAlone(K, V, L, X)   == {p \in Made(K, V, L, X) : p.bundle = NoId}
MadeBundled(K, V, L, X) == {p \in Made(K, V, L, X) : p.bundle # NoId}

(* One pack of the disk,                                                   *)
LEMMA BuiltMade ==
    ASSUME NEW K, NEW V, NEW L, NEW X, Languages \in Seq(L), English \in L,
           NEW p \in Given(K, V, L, X), NEW b \in X \cup {NoId}
    PROVE  /\ Cat!Built(p, b) \in Made(K, V, L, X)
           /\ Cat!Built(p, b).bundle = b /\ Cat!Built(p, b).id = p.id
<1> DEFINE places  == {i \in 1..Len(Languages) : Languages[i] \in DOMAIN p.files}
           first   == IF places = {} THEN 0 ELSE Cat!Min(places)
           default == Cat!DefaultLocale(p, first)
           M       == Messages(K, V)
           S       == DOMAIN p.files \cup {default}
           texts   == [l \in S |-> IF l \in DOMAIN p.files THEN p.files[l] ELSE <<>>]
<1>1. Cat!Built(p, b) = Cat!WithTexts(p, b, default)
  BY DEF Cat!Built, Cat!SelectInSeq
<1>2. first = 0 \/ first \in 1..Len(Languages)
  <2>1. places # {} => Cat!Min(places) \in places
    <3> HIDE DEF places
    <3>1. Len(Languages) \in Nat /\ places \in SUBSET (1..Len(Languages))
      BY DEF places
    <3> QED BY <3>1, FirstPlace
  <2>2. places # {} => Cat!Min(places) \in 1..Len(Languages)
    BY <2>1
  <2> HIDE DEF places
  <2> QED BY <2>2
<1>3. default \in L
  <2> HIDE DEF first
  <2>1. p.declared \in L \cup {NoId}
    BY DEF Given
  <2>2. first # 0 => Languages[first] \in L
    BY <1>2
  <2> QED BY <2>1, <2>2 DEF Cat!DefaultLocale
<1>4. PICK R \in SUBSET L : p.files \in [R -> M]
  BY DEF Given, TextsOf
<1> HIDE DEF default
<1>5. texts \in [S -> M] /\ S \in SUBSET L
  <2>1. <<>> \in M
    BY NothingSaid
  <2> HIDE DEF M
  <2> QED BY <1>3, <1>4, <2>1
<1>6. texts \in TextsOf(K, V, L)
  <2> HIDE DEF texts, S
  <2> QED BY <1>5 DEF TextsOf
<1> DEFINE built == [id |-> p.id, type |-> p.type, source |-> p.source, bundle |-> b,
                     default |-> default, locales |-> S, texts |-> texts]
<1>7. Cat!Built(p, b) = built
  BY <1>1 DEF Cat!WithTexts
<1>8. default \in DOMAIN texts /\ DOMAIN texts = S
  OBVIOUS
<1>9. p.id \in X /\ p.type \in X /\ p.source \in X
  BY DEF Given
<1> HIDE DEF texts, S
<1>10. built \in Made(K, V, L, X)
  BY <1>3, <1>5, <1>6, <1>8, <1>9 DEF Made, Packs
<1> QED
  BY <1>7, <1>10

(* and all those of a directory.                                           *)
LEMMA AloneMade ==
    ASSUME NEW K, NEW V, NEW L, NEW X, Languages \in Seq(L), English \in L,
           NEW packs \in Seq(Given(K, V, L, X))
    PROVE  /\ Cat!Alone(packs) \in Seq(MadeAlone(K, V, L, X))
           /\ Len(Cat!Alone(packs)) = Len(packs)
           /\ \A i \in DOMAIN packs : Cat!Alone(packs)[i].id = packs[i].id
<1> DEFINE n == Len(packs)
           s == [i \in 1..n |-> Cat!Built(packs[i], NoId)]
<1>1. n \in Nat /\ DOMAIN packs = 1..n /\ \A i \in 1..n : packs[i] \in Given(K, V, L, X)
  OBVIOUS
<1>2. Cat!Alone(packs) = s
  BY <1>1 DEF Cat!Alone
<1> HIDE DEF n
<1>3. \A i \in 1..n : s[i] \in MadeAlone(K, V, L, X) /\ s[i].id = packs[i].id
  <2> SUFFICES ASSUME NEW i \in 1..n
               PROVE  s[i] \in MadeAlone(K, V, L, X) /\ s[i].id = packs[i].id
    OBVIOUS
  <2>1. s[i] = Cat!Built(packs[i], NoId) /\ NoId \in X \cup {NoId}
    OBVIOUS
  <2> HIDE DEF s
  <2>2. /\ Cat!Built(packs[i], NoId) \in Made(K, V, L, X)
        /\ Cat!Built(packs[i], NoId).bundle = NoId /\ Cat!Built(packs[i], NoId).id = packs[i].id
    BY <1>1, <2>1, BuiltMade
  <2> QED BY <2>1, <2>2 DEF MadeAlone
<1>4. s \in Seq(MadeAlone(K, V, L, X)) /\ Len(s) = n
  <2>1. s \in [1..n -> MadeAlone(K, V, L, X)] /\ DOMAIN s = 1..n
    BY <1>3
  <2> HIDE DEF s
  <2>2. s \in Seq(MadeAlone(K, V, L, X))
    BY <1>1, <2>1, FunctionIsSeq
  <2> QED BY <1>1, <2>1, <2>2
<1> QED
  <2> HIDE DEF s
  <2> QED BY <1>1, <1>2, <1>3, <1>4 DEF n

(* The packs of a bundle, one by one, and those of all bundles.            *)
Child(all, pack, id, type) ==
    IF pack.type = type THEN Append(all, Cat!Built(pack, id)) ELSE all

(* A bundle adds packs that know their bundle,                             *)
LEMMA ChildrenMade ==
    ASSUME NEW K, NEW V, NEW L, NEW X, NoId \notin X, Languages \in Seq(L), English \in L,
           NEW found \in Seq(MadeBundled(K, V, L, X)), NEW type,
           NEW bundle \in [id : X, source : X, packs : Seq(Given(K, V, L, X))]
    PROVE  Cat!WithChildren(found, bundle, type) \in Seq(MadeBundled(K, V, L, X))
<1> DEFINE packs == bundle.packs
           n     == Len(packs)
           D     == Seq(MadeBundled(K, V, L, X))
           steps == [i \in 1..n |-> [all \in D |-> Child(all, packs[i], bundle.id, type)]]
           f     == CHOOSE h : h = [t \in SUBSET DOMAIN packs |->
                       IF t = {} THEN found
                       ELSE Child(h[t \ {Cat!Max(t)}], packs[Cat!Max(t)], bundle.id, type)]
<1>1. n \in Nat /\ DOMAIN packs = 1..n /\ \A i \in 1..n : packs[i] \in Given(K, V, L, X)
  OBVIOUS
<1>2. steps \in [1..n -> [D -> D]] /\ found \in D
  <2>1. ASSUME NEW i \in 1..n, NEW all \in D 
        PROVE  Child(all, packs[i], bundle.id, type) \in D
    <3> DEFINE new == Cat!Built(packs[i], bundle.id)
    <3>1. bundle.id \in X /\ bundle.id \in X \cup {NoId} /\ bundle.id # NoId
      OBVIOUS
    <3>2. new \in Made(K, V, L, X) /\ new.bundle = bundle.id
      <4> HIDE DEF packs, n
      <4> QED BY <1>1, <3>1, BuiltMade
    <3> HIDE DEF new
    <3>3. new \in MadeBundled(K, V, L, X)
      BY <3>1, <3>2 DEF MadeBundled
    <3>4. Append(all, new) \in D
      BY <3>3, AppendProperties
    <3> QED BY <3>4 DEF new, Child
  <2> HIDE DEF n, D, packs
  <2>2. steps \in [1..n -> [D -> D]]
    BY <2>1
  <2> QED BY <2>2 DEF D
<1>3. \A t \in SUBSET (1..n) : t # {} => Cat!Max(t) \in 1..n
  <2> HIDE DEF n
  <2> QED BY <1>1, LastIndex
<1> HIDE DEF packs
<1>4. \E g : g = [t \in SUBSET DOMAIN packs |->
                    IF t = {} THEN found
                    ELSE Child(g[t \ {Cat!Max(t)}], packs[Cat!Max(t)], bundle.id, type)]
  <2>1. PICK g \in [SUBSET (1..n) -> D] :
            \A t \in SUBSET (1..n) : FoldStep(g, t, n, D, found, steps)
    <3> HIDE DEF n, steps, D
    <3> QED BY <1>1, <1>2, FoldSteps
  <2>2. \A t : Cat!Max(t) = I!Max(t)
    BY LastIndex
  <2>3. ASSUME NEW t \in SUBSET (1..n)
        PROVE  g[t] = IF t = {} THEN found
                      ELSE Child(g[t \ {Cat!Max(t)}], packs[Cat!Max(t)], bundle.id, type)
    <3> HIDE DEF n, D
    <3> QED BY <2>1, <2>2 DEF FoldStep
  <2>4. DOMAIN g = SUBSET DOMAIN packs
    BY <1>1
  <2> HIDE DEF n, D
  <2> QED BY <1>1, <2>3, <2>4
<1>5. f = [t \in SUBSET DOMAIN packs |->
             IF t = {} THEN found
             ELSE Child(f[t \ {Cat!Max(t)}], packs[Cat!Max(t)], bundle.id, type)]
  <2> HIDE DEF n
  <2> QED BY <1>4
<1>6. PICK r : Turns(r, n, D, found, steps) /\ \A k \in 0..n : r[k] = f[1..k]
  <2>1. {} \in SUBSET (1..n)
    OBVIOUS
  <2> HIDE DEF f, n
  <2>2. f[{}] = found
    BY <1>1, <1>5, <2>1
  <2>3. ASSUME NEW t \in SUBSET (1..n), t # {}, f[t \ {Cat!Max(t)}] \in D
        PROVE  f[t] = steps[Cat!Max(t)][f[t \ {Cat!Max(t)}]]
    <3> HIDE DEF D
    <3> QED BY <1>1, <1>3, <1>5, <2>3
  <2>4. FoldsBy(f, n, D, found, steps)
    <3> HIDE DEF steps, D
    <3>1. n \in Nat /\ found \in D /\ steps \in [1..n -> [D -> D]]
      BY <1>1, <1>2
    <3> QED BY <2>2, <2>3, <3>1 DEF FoldsBy
  <2> HIDE DEF steps, D
  <2> QED BY <2>4, FoldTurns DEF HasTurns
<1>7. Cat!WithChildren(found, bundle, type) = f[1..n]
  <2>1. Cat!WithChildren(found, bundle, type) = f[DOMAIN packs]
    BY DEF Cat!WithChildren, Cat!FoldLeft, Cat!MapThenFoldSet, Child, packs
  <2> HIDE DEF f, n
  <2> QED BY <1>1, <2>1
<1>8. r[n] \in D /\ r[n] = f[1..n]
  <2> HIDE DEF f, n, D
  <2>1. r \in [0..n -> D]
    BY <1>6 DEF Turns
  <2> QED BY <1>1, <1>6, <2>1
<1> QED
  <2> HIDE DEF f
  <2> QED BY <1>7, <1>8

(* and so do all bundles.                                                  *)
LEMMA BundledMade ==
    ASSUME NEW K, NEW V, NEW L, NEW X, NoId \notin X, Languages \in Seq(L), English \in L,
           NEW files \in Roots(K, V, L, X), NEW type
    PROVE  Cat!Bundled(files, type) \in Seq(MadeBundled(K, V, L, X))
<1> DEFINE all   == files.bundles
           n     == Len(all)
           D     == Seq(MadeBundled(K, V, L, X))
           steps == [i \in 1..n |-> [s \in D |-> Cat!WithChildren(s, all[i], type)]]
           f     == CHOOSE h : h = [t \in SUBSET DOMAIN all |->
                       IF t = {} THEN <<>>
                       ELSE Cat!WithChildren(h[t \ {Cat!Max(t)}], all[Cat!Max(t)], type)]
<1>1. /\ n \in Nat /\ DOMAIN all = 1..n
      /\ \A i \in 1..n : all[i] \in [id : X, source : X, packs : Seq(Given(K, V, L, X))]
  <2> DEFINE S == [id : X, source : X, packs : Seq(Given(K, V, L, X))]
  <2>1. all \in Seq(S)
    BY DEF Roots
  <2> HIDE DEF all, S
  <2>2. n \in Nat /\ DOMAIN all = 1..n /\ \A i \in 1..n : all[i] \in S
    BY <2>1
  <2> QED BY <2>2 DEF S
<1> HIDE DEF all
<1>2. steps \in [1..n -> [D -> D]] /\ <<>> \in D
  <2>1. \A i \in 1..n : \A s \in D : Cat!WithChildren(s, all[i], type) \in D
    BY <1>1, ChildrenMade
  <2>2. <<>> \in D
    OBVIOUS
  <2> HIDE DEF n, D
  <2> QED BY <2>1, <2>2
<1>3. \A t \in SUBSET (1..n) : t # {} => Cat!Max(t) \in 1..n
  <2> HIDE DEF n
  <2> QED BY <1>1, LastIndex
<1>4. \E g : g = [t \in SUBSET DOMAIN all |->
                    IF t = {} THEN <<>>
                    ELSE Cat!WithChildren(g[t \ {Cat!Max(t)}], all[Cat!Max(t)], type)]
  <2>1. PICK g \in [SUBSET (1..n) -> D] :
            \A t \in SUBSET (1..n) : FoldStep(g, t, n, D, <<>>, steps)
    <3> HIDE DEF n, steps, D
    <3> QED BY <1>1, <1>2, FoldSteps
  <2>2. \A t : Cat!Max(t) = I!Max(t)
    BY LastIndex
  <2>3. ASSUME NEW t \in SUBSET (1..n)
        PROVE  g[t] = IF t = {} THEN <<>>
                      ELSE Cat!WithChildren(g[t \ {Cat!Max(t)}], all[Cat!Max(t)], type)
    <3> HIDE DEF n, D
    <3> QED BY <2>1, <2>2 DEF FoldStep
  <2>4. DOMAIN g = SUBSET DOMAIN all
    BY <1>1
  <2> HIDE DEF n, D
  <2> QED BY <1>1, <2>3, <2>4
<1>5. f = [t \in SUBSET DOMAIN all |->
             IF t = {} THEN <<>>
             ELSE Cat!WithChildren(f[t \ {Cat!Max(t)}], all[Cat!Max(t)], type)]
  <2> HIDE DEF n
  <2> QED BY <1>4
<1>6. PICK r : Turns(r, n, D, <<>>, steps) /\ \A k \in 0..n : r[k] = f[1..k]
  <2>1. {} \in SUBSET (1..n)
    OBVIOUS
  <2> HIDE DEF f, n
  <2>2. f[{}] = <<>>
    BY <1>1, <1>5, <2>1
  <2>3. ASSUME NEW t \in SUBSET (1..n), t # {}, f[t \ {Cat!Max(t)}] \in D
        PROVE  f[t] = steps[Cat!Max(t)][f[t \ {Cat!Max(t)}]]
    <3> HIDE DEF D
    <3> QED BY <1>1, <1>3, <1>5, <2>3
  <2>4. FoldsBy(f, n, D, <<>>, steps)
    <3> HIDE DEF steps, D
    <3>1. n \in Nat /\ <<>> \in D /\ steps \in [1..n -> [D -> D]]
      BY <1>1, <1>2
    <3> QED BY <2>2, <2>3, <3>1 DEF FoldsBy
  <2> HIDE DEF steps, D
  <2> QED BY <2>4, FoldTurns DEF HasTurns
<1>7. Cat!Bundled(files, type) = f[1..n]
  <2>1. Cat!Bundled(files, type) = f[DOMAIN all]
    BY DEF Cat!Bundled, Cat!FoldLeft, Cat!MapThenFoldSet, all
  <2> HIDE DEF f, n
  <2> QED BY <1>1, <2>1
<1>8. r[n] \in D /\ r[n] = f[1..n]
  <2> HIDE DEF f, n, D
  <2>1. r \in [0..n -> D]
    BY <1>6 DEF Turns
  <2> QED BY <1>1, <1>6, <2>1
<1> QED
  <2> HIDE DEF f
  <2> QED BY <1>7, <1>8

(* Packs of one id are brought down to one, pack by pack.                  *)
Scans(S) == [ok : BOOLEAN, packs : Seq(S)]
After(seen, pack) == Cat!AfterPack(seen, pack, Cat!Place(seen.packs, pack.id))

(* What becomes of a pack: it is new, or it replaces, gives way, or fails. *)
LEMMA AfterCases ==
    ASSUME NEW S, NEW seen \in Scans(S), NEW p \in S
    PROVE  LET same == Cat!Place(seen.packs, p.id)
           IN /\ After(seen, p) \in Scans(S)
              /\ ~seen.ok => After(seen, p) = seen
              /\ seen.ok => /\ same = 0 => /\ After(seen, p).ok
                                           /\ After(seen, p).packs = Append(seen.packs, p)
                            /\ same # 0 /\ Cat!Replaces(seen.packs[same], p) =>
                                  /\ After(seen, p).ok
                                  /\ After(seen, p).packs = [seen.packs EXCEPT ![same] = p]
                            /\ same # 0 /\ ~Cat!Replaces(seen.packs[same], p)
                               /\ ~Cat!Replaces(p, seen.packs[same]) => ~After(seen, p).ok
<1> DEFINE same == Cat!Place(seen.packs, p.id)
           new  == After(seen, p)
<1>1. seen.ok \in BOOLEAN /\ seen.packs \in Seq(S) /\ seen = [ok |-> seen.ok, packs |-> seen.packs]
  BY DEF Scans
<1>2. same # 0 => same \in DOMAIN seen.packs
  BY <1>1, Placed
<1>3. new = Cat!AfterPack(seen, p, same)
  BY DEF After
<1> HIDE DEF same, new
<1>4. CASE ~seen.ok
  BY <1>3, <1>4 DEF Cat!AfterPack, same, new
<1>5. CASE seen.ok /\ same = 0
  <2>1. new = [seen EXCEPT !.packs = Append(@, p)]
    BY <1>3, <1>5 DEF Cat!AfterPack
  <2>2. Append(seen.packs, p) \in Seq(S)
    BY <1>1, AppendProperties
  <2>3. new.ok = seen.ok /\ new.packs = Append(seen.packs, p) /\ new \in Scans(S)
    BY <1>1, <2>1, <2>2 DEF Scans
  <2> QED BY <1>5, <2>3 DEF same, new
<1>6. CASE seen.ok /\ same # 0 /\ Cat!Replaces(seen.packs[same], p)
  <2>1. new = [seen EXCEPT !.packs[same] = p]
    BY <1>3, <1>6 DEF Cat!AfterPack
  <2>2. [seen.packs EXCEPT ![same] = p] \in Seq(S)
    BY <1>1, <1>2, <1>6
  <2>3. new.ok = seen.ok /\ new.packs = [seen.packs EXCEPT ![same] = p]
    BY <1>1, <2>1
  <2>4. new = [ok |-> seen.ok, packs |-> [seen.packs EXCEPT ![same] = p]]
    BY <1>1, <2>1
  <2>5. new \in Scans(S)
    BY <1>1, <2>2, <2>4 DEF Scans
  <2> QED BY <1>6, <2>3, <2>5 DEF same, new
<1>7. CASE seen.ok /\ same # 0 /\ ~Cat!Replaces(seen.packs[same], p)
           /\ Cat!Replaces(p, seen.packs[same])
  <2>1. new = seen
    BY <1>3, <1>7 DEF Cat!AfterPack
  <2> QED BY <1>7, <2>1 DEF same, new
<1>8. CASE seen.ok /\ same # 0 /\ ~Cat!Replaces(seen.packs[same], p)
           /\ ~Cat!Replaces(p, seen.packs[same])
  <2>1. new = [seen EXCEPT !.ok = FALSE]
    BY <1>3, <1>8 DEF Cat!AfterPack
  <2>2. new = [ok |-> FALSE, packs |-> seen.packs]
    BY <1>1, <2>1
  <2>3. new.ok = FALSE /\ new \in Scans(S)
    BY <1>1, <2>2 DEF Scans
  <2> QED BY <1>8, <2>3 DEF same, new
<1> QED
  BY <1>4, <1>5, <1>6, <1>7, <1>8

(* The packs are gone through one by one.                                  *)
LEMMA DedupedTurns ==
    ASSUME NEW S, NEW packs \in Seq(S)
    PROVE  LET n == Len(packs)
           IN \E r \in [0..n -> Scans(S)] :
                 /\ r[0] = [ok |-> TRUE, packs |-> <<>>]
                 /\ \A k \in 1..n : r[k] = After(r[k - 1], packs[k])
                 /\ Cat!Deduped(packs) = r[n]
<1> DEFINE n     == Len(packs)
           D     == Scans(S)
           none  == [ok |-> TRUE, packs |-> <<>>]
           steps == [i \in 1..n |-> [seen \in D |-> After(seen, packs[i])]]
           f     == CHOOSE h : h = [t \in SUBSET DOMAIN packs |->
                       IF t = {} THEN none
                       ELSE After(h[t \ {Cat!Max(t)}], packs[Cat!Max(t)])]
<1>1. n \in Nat /\ DOMAIN packs = 1..n /\ \A i \in 1..n : packs[i] \in S
  OBVIOUS
<1>2. steps \in [1..n -> [D -> D]] /\ none \in D
  <2>1. \A i \in 1..n : \A seen \in D : After(seen, packs[i]) \in D
    <3> HIDE DEF n
    <3> QED BY <1>1, AfterCases
  <2>2. none \in D
    BY DEF Scans
  <2> HIDE DEF n, D, none
  <2> QED BY <2>1, <2>2
<1> HIDE DEF none
<1>3. \A t \in SUBSET (1..n) : t # {} => Cat!Max(t) \in 1..n
  <2> HIDE DEF n
  <2> QED BY <1>1, LastIndex
<1>4. \E g : g = [t \in SUBSET DOMAIN packs |->
                    IF t = {} THEN none
                    ELSE After(g[t \ {Cat!Max(t)}], packs[Cat!Max(t)])]
  <2>1. PICK g \in [SUBSET (1..n) -> D] :
            \A t \in SUBSET (1..n) : FoldStep(g, t, n, D, none, steps)
    <3> HIDE DEF n, steps, D
    <3> QED BY <1>1, <1>2, FoldSteps
  <2>2. \A t : Cat!Max(t) = I!Max(t)
    BY LastIndex
  <2>3. ASSUME NEW t \in SUBSET (1..n)
        PROVE  g[t] = IF t = {} THEN none
                      ELSE After(g[t \ {Cat!Max(t)}], packs[Cat!Max(t)])
    <3> HIDE DEF n, D
    <3> QED BY <2>1, <2>2 DEF FoldStep
  <2>4. DOMAIN g = SUBSET DOMAIN packs
    BY <1>1
  <2> HIDE DEF n, D
  <2> QED BY <1>1, <2>3, <2>4
<1>5. f = [t \in SUBSET DOMAIN packs |->
             IF t = {} THEN none
             ELSE After(f[t \ {Cat!Max(t)}], packs[Cat!Max(t)])]
  <2> HIDE DEF n
  <2> QED BY <1>4
<1>6. PICK r : Turns(r, n, D, none, steps) /\ \A k \in 0..n : r[k] = f[1..k]
  <2>1. {} \in SUBSET (1..n)
    OBVIOUS
  <2> HIDE DEF f, n
  <2>2. f[{}] = none
    BY <1>1, <1>5, <2>1
  <2>3. ASSUME NEW t \in SUBSET (1..n), t # {}, f[t \ {Cat!Max(t)}] \in D
        PROVE  f[t] = steps[Cat!Max(t)][f[t \ {Cat!Max(t)}]]
    <3> HIDE DEF D
    <3> QED BY <1>1, <1>3, <1>5, <2>3
  <2>4. FoldsBy(f, n, D, none, steps)
    <3> HIDE DEF steps, D
    <3>1. n \in Nat /\ none \in D /\ steps \in [1..n -> [D -> D]]
      BY <1>1, <1>2
    <3> QED BY <2>2, <2>3, <3>1 DEF FoldsBy
  <2> HIDE DEF steps, D
  <2> QED BY <2>4, FoldTurns DEF HasTurns
<1>7. Cat!Deduped(packs) = f[1..n]
  <2>1. Cat!Deduped(packs) = f[DOMAIN packs]
    BY DEF Cat!Deduped, Cat!FoldLeft, Cat!MapThenFoldSet, After, none
  <2> HIDE DEF f, n
  <2> QED BY <1>1, <2>1
<1>8. /\ r \in [0..n -> D] /\ r[0] = none /\ r[n] = f[1..n]
      /\ \A k \in 1..n : r[k] = After(r[k - 1], packs[k])
  <2> HIDE DEF f, n, D
  <2>1. r \in [0..n -> D] /\ r[0] = none
    BY <1>6 DEF Turns
  <2>2. \A k \in 1..n : r[k - 1] \in D /\ r[k] = steps[k][r[k - 1]]
    BY <1>6 DEF Turns
  <2>3. r[n] = f[1..n]
    BY <1>1, <1>6
  <2> QED BY <1>1, <2>1, <2>2, <2>3
<1> QED
  <2> HIDE DEF f
  <2> QED BY <1>7, <1>8 DEF none

(* What was installed alone is before what came in a bundle.               *)
AloneFirst(packs) ==
    \A i, j \in DOMAIN packs : i < j /\ packs[j].bundle = NoId => packs[i].bundle = NoId

(* Two packs of one id, the first alone and the second in a bundle.        *)
Decided(p, q) == p.source = q.source /\ p.bundle = NoId /\ q.bundle # NoId
Decidable(packs, k) == \A i, j \in 1..k : i < j /\ packs[i].id = packs[j].id =>
                          Decided(packs[i], packs[j])
LastOf(packs, k, i, id) == /\ i \in 1..k /\ packs[i].id = id
                           /\ \A j \in 1..k : packs[j].id = id => j <= i
Kept(packs, k, seen) ==
    /\ seen.ok <=> Decidable(packs, k)
    /\ seen.ok =>
          /\ \A m, h \in DOMAIN seen.packs : seen.packs[m].id = seen.packs[h].id => m = h
          /\ \A m \in DOMAIN seen.packs : \E i \in 1..k :
                seen.packs[m] = packs[i] /\ LastOf(packs, k, i, packs[i].id)
          /\ \A i \in 1..k : \E m \in DOMAIN seen.packs : seen.packs[m].id = packs[i].id

(* What holds of the packs gone through holds with one more.               *)
LEMMA KeptStep ==
    ASSUME NEW S, NEW packs \in Seq(S), AloneFirst(packs),
           NEW k \in Nat, k + 1 <= Len(packs), NEW seen \in Scans(S), Kept(packs, k, seen)
    PROVE  Kept(packs, k + 1, After(seen, packs[k + 1]))
<1> DEFINE p    == packs[k + 1]
           l    == seen.packs
           same == Cat!Place(l, p.id)
           new  == After(seen, p)
<1>1. /\ l \in Seq(S) /\ p \in S /\ DOMAIN packs = 1..Len(packs)
      /\ k + 1 \in 1..k + 1 /\ k + 1 \in DOMAIN packs
      /\ \A i \in 1..k : i \in 1..k + 1 /\ i < k + 1 /\ i \in DOMAIN packs
      /\ \A i \in 1..k + 1 : i \in 1..k \/ i = k + 1
  BY DEF Scans
<1>2. /\ new \in Scans(S)
      /\ ~seen.ok => new = seen
      /\ seen.ok => /\ same = 0 => new.ok /\ new.packs = Append(l, p)
                    /\ same # 0 /\ Cat!Replaces(l[same], p) =>
                          new.ok /\ new.packs = [l EXCEPT ![same] = p]
                    /\ same # 0 /\ ~Cat!Replaces(l[same], p) /\ ~Cat!Replaces(p, l[same]) => ~new.ok
  BY <1>1, AfterCases
<1>3. /\ same # 0 <=> \E m \in DOMAIN l : l[m].id = p.id
      /\ same # 0 => same \in DOMAIN l /\ l[same].id = p.id
  BY <1>1, Placed
<1> HIDE DEF p, l, same, new
<1>4. Decidable(packs, k + 1) <=>
          Decidable(packs, k) /\ \A i \in 1..k : packs[i].id = p.id => Decided(packs[i], p)
  BY <1>1 DEF Decidable, p
<1>5. CASE ~seen.ok
  <2>1. ~Decidable(packs, k)
    BY <1>5 DEF Kept
  <2>2. new = seen /\ ~Decidable(packs, k + 1)
    BY <1>2, <1>4, <1>5, <2>1
  <2> QED BY <1>5, <2>2 DEF Kept, new, p
<1> SUFFICES ASSUME seen.ok PROVE Kept(packs, k + 1, new)
  BY <1>5 DEF new, p
<1>6. /\ Decidable(packs, k)
      /\ \A m, h \in DOMAIN l : l[m].id = l[h].id => m = h
      /\ \A m \in DOMAIN l : \E i \in 1..k : l[m] = packs[i] /\ LastOf(packs, k, i, packs[i].id)
      /\ \A i \in 1..k : \E m \in DOMAIN l : l[m].id = packs[i].id
  BY DEF Kept, l
<1>7. ASSUME NEW m \in DOMAIN l, l[m].id # p.id
      PROVE  \E i \in 1..k + 1 : l[m] = packs[i] /\ LastOf(packs, k + 1, i, packs[i].id)
  <2>1. PICK i \in 1..k : l[m] = packs[i] /\ LastOf(packs, k, i, packs[i].id)
    BY <1>6
  <2>2. \A j \in 1..k + 1 : packs[j].id = packs[i].id => j \in 1..k
    BY <1>1, <1>7, <2>1 DEF p
  <2>3. LastOf(packs, k + 1, i, packs[i].id)
    BY <1>1, <2>1, <2>2 DEF LastOf
  <2> QED BY <1>1, <2>1, <2>3
<1>8. LastOf(packs, k + 1, k + 1, p.id)
  BY <1>1 DEF LastOf, p
<1>9. CASE same = 0
  <2>1. new.ok /\ new.packs = Append(l, p)
    BY <1>2, <1>9
  <2>2. \A m \in DOMAIN l : l[m].id # p.id
    BY <1>3, <1>9
  <2>3. \A i \in 1..k : packs[i].id # p.id
    BY <1>6, <2>2
  <2>4. Decidable(packs, k + 1)
    BY <1>4, <1>6, <2>3
  <2> DEFINE t == Append(l, p)
  <2>5. /\ Len(l) \in Nat /\ DOMAIN l = 1..Len(l) /\ DOMAIN t = 1..Len(l) + 1
        /\ \A m \in 1..Len(l) : t[m] = l[m]
        /\ t[Len(l) + 1] = p
    BY <1>1, AppendProperties
  <2> HIDE DEF t
  <2>6. \A m \in DOMAIN t : (m \in DOMAIN l /\ t[m] = l[m]) \/ (m = Len(l) + 1 /\ t[m] = p)
    <3>1. \A m \in 1..Len(l) + 1 : m \in 1..Len(l) \/ m = Len(l) + 1
      BY <2>5
    <3> QED BY <2>5, <3>1
  <2>7. \A m, h \in DOMAIN t : t[m].id = t[h].id => m = h
    BY <1>6, <2>2, <2>6
  <2>8. \A m \in DOMAIN t : \E i \in 1..k + 1 :
            t[m] = packs[i] /\ LastOf(packs, k + 1, i, packs[i].id)
    <3> SUFFICES ASSUME NEW m \in DOMAIN t
                 PROVE  \E i \in 1..k + 1 : t[m] = packs[i] /\ LastOf(packs, k + 1, i, packs[i].id)
      OBVIOUS
    <3>1. CASE m \in DOMAIN l /\ t[m] = l[m]
      BY <1>7, <2>2, <3>1
    <3>2. CASE t[m] = p
      BY <1>1, <1>8, <3>2 DEF p
    <3> QED BY <2>6, <3>1, <3>2
  <2>9. \A i \in 1..k + 1 : \E m \in DOMAIN t : t[m].id = packs[i].id
    <3> SUFFICES ASSUME NEW i \in 1..k + 1 PROVE \E m \in DOMAIN t : t[m].id = packs[i].id
      OBVIOUS
    <3>1. CASE i \in 1..k
      <4>1. PICK m \in DOMAIN l : l[m].id = packs[i].id
        BY <1>6, <3>1
      <4>2. m \in DOMAIN t /\ t[m] = l[m]
        BY <2>5
      <4> QED BY <4>1, <4>2
    <3>2. CASE i = k + 1
      <4>1. Len(l) + 1 \in DOMAIN t
        BY <2>5
      <4> QED BY <2>5, <3>2, <4>1 DEF p
    <3> QED BY <1>1, <3>1, <3>2
  <2>10. new.ok /\ new.packs = t
    BY <2>1 DEF t
  <2> QED BY <2>4, <2>7, <2>8, <2>9, <2>10 DEF Kept
<1>10. CASE same # 0
  <2>1. same \in DOMAIN l /\ l[same].id = p.id
    BY <1>3, <1>10
  <2>2. PICK i0 \in 1..k : l[same] = packs[i0] /\ LastOf(packs, k, i0, packs[i0].id)
    BY <1>6, <2>1
  <2>3. p.bundle = NoId => packs[i0].bundle = NoId
    BY <1>1, <2>2 DEF AloneFirst, p
  <2>4. packs[i0].id = p.id /\ \A j \in 1..k : packs[j].id = p.id => j <= i0
    BY <2>1, <2>2 DEF LastOf
  <2>5. CASE Cat!Replaces(packs[i0], p)
    <3>1. new.ok /\ new.packs = [l EXCEPT ![same] = p]
      BY <1>2, <1>10, <2>2, <2>5
    <3>2. Decided(packs[i0], p)
      BY <2>5 DEF Cat!Replaces, Decided
    <3>3. \A i \in 1..k : packs[i].id = p.id => i = i0
      <4> SUFFICES ASSUME NEW i \in 1..k, packs[i].id = p.id, i # i0 PROVE FALSE
        OBVIOUS
      <4>1. i < i0
        BY <2>4
      <4>2. Decided(packs[i], packs[i0])
        BY <1>6, <2>4, <4>1 DEF Decidable
      <4> QED BY <3>2, <4>2 DEF Decided
    <3>4. Decidable(packs, k + 1)
      BY <1>4, <1>6, <3>2, <3>3
    <3> DEFINE t == [l EXCEPT ![same] = p]
    <3>5. /\ DOMAIN t = DOMAIN l /\ t[same] = p
          /\ \A m \in DOMAIN l : m # same => t[m] = l[m]
      BY <1>1, <2>1
    <3> HIDE DEF t
    <3>6. \A m \in DOMAIN t : t[m].id = l[m].id
      BY <2>1, <3>5
    <3>7. \A m, h \in DOMAIN t : t[m].id = t[h].id => m = h
      BY <1>6, <3>5, <3>6
    <3>8. \A m \in DOMAIN t : \E i \in 1..k + 1 :
              t[m] = packs[i] /\ LastOf(packs, k + 1, i, packs[i].id)
      <4> SUFFICES ASSUME NEW m \in DOMAIN t
                   PROVE  \E i \in 1..k + 1 : t[m] = packs[i] /\ LastOf(packs, k + 1, i, packs[i].id)
        OBVIOUS
      <4>1. CASE m = same
        BY <1>1, <1>8, <3>5, <4>1 DEF p
      <4>2. CASE m # same
        <5>1. m \in DOMAIN l /\ t[m] = l[m] /\ l[m].id # p.id
          BY <1>6, <2>1, <3>5, <4>2
        <5> QED BY <1>7, <5>1
      <4> QED BY <4>1, <4>2
    <3>9. \A i \in 1..k + 1 : \E m \in DOMAIN t : t[m].id = packs[i].id
      <4> SUFFICES ASSUME NEW i \in 1..k + 1 PROVE \E m \in DOMAIN t : t[m].id = packs[i].id
        OBVIOUS
      <4>1. CASE i \in 1..k
        BY <1>6, <3>5, <3>6, <4>1
      <4>2. CASE i = k + 1
        BY <2>1, <3>5, <4>2 DEF p
      <4> QED BY <1>1, <4>1, <4>2
    <3>10. new.ok /\ new.packs = t
      BY <3>1 DEF t
    <3> QED BY <3>4, <3>7, <3>8, <3>9, <3>10 DEF Kept
  <2>6. CASE ~Cat!Replaces(packs[i0], p)
    <3>1. ~Cat!Replaces(p, packs[i0])
      BY <2>3 DEF Cat!Replaces
    <3>2. ~new.ok
      BY <1>2, <1>10, <2>2, <2>6, <3>1
    <3>3. ~Decided(packs[i0], p)
      BY <2>6 DEF Cat!Replaces, Decided
    <3>4. ~Decidable(packs, k + 1)
      BY <1>4, <2>4, <3>3
    <3> QED BY <3>2, <3>4 DEF Kept
  <2> QED BY <2>5, <2>6
<1> QED
  BY <1>9, <1>10

(* So it holds of all packs.                                               *)
LEMMA DedupedKept ==
    ASSUME NEW S, NEW packs \in Seq(S), AloneFirst(packs)
    PROVE  Cat!Deduped(packs) \in Scans(S) /\ Kept(packs, Len(packs), Cat!Deduped(packs))
<1> DEFINE n == Len(packs)
<1>1. n \in Nat
  OBVIOUS
<1>2. PICK r \in [0..n -> Scans(S)] :
          /\ r[0] = [ok |-> TRUE, packs |-> <<>>]
          /\ \A k \in 1..n : r[k] = After(r[k - 1], packs[k])
          /\ Cat!Deduped(packs) = r[n]
  BY DedupedTurns
<1> DEFINE ns == {k \in Nat : k <= n => Kept(packs, k, r[k])}
<1>3. 0 \in ns
  <2>1. r[0].ok = TRUE /\ DOMAIN r[0].packs = {} /\ 1..0 = {}
    BY <1>2
  <2>2. Decidable(packs, 0)
    BY <2>1 DEF Decidable
  <2>3. Kept(packs, 0, r[0])
    BY <2>1, <2>2 DEF Kept
  <2> QED BY <2>3
<1>4. ASSUME NEW k \in Nat, k \in ns PROVE k + 1 \in ns
  <2> SUFFICES ASSUME k + 1 <= n PROVE Kept(packs, k + 1, r[k + 1])
    OBVIOUS
  <2>1. k + 1 \in 1..n /\ (k + 1) - 1 = k /\ k \in 0..n /\ k <= n
    BY <1>1
  <2>2. Kept(packs, k, r[k])
    BY <1>4, <2>1
  <2> HIDE DEF ns
  <2>3. r[k] \in Scans(S) /\ r[k + 1] = After(r[k], packs[k + 1])
    BY <1>2, <2>1
  <2>4. Kept(packs, k + 1, After(r[k], packs[k + 1]))
    BY <2>2, <2>3, KeptStep
  <2> QED BY <2>3, <2>4
<1>5. Nat \subseteq ns
  <2> HIDE DEF ns
  <2> QED BY <1>3, <1>4, Counting
<1>6. Kept(packs, n, r[n]) /\ r[n] \in Scans(S)
  <2>1. n \in ns /\ n <= n /\ n \in 0..n
    BY <1>1, <1>5
  <2>2. Kept(packs, n, r[n])
    BY <2>1
  <2> HIDE DEF n
  <2> QED BY <1>2, <2>1, <2>2
<1> QED
  BY <1>2, <1>6

(* Where what is alone comes first, packs can be told apart by that rule   *)
(* just when no two of one id are of different sources or both alone or    *)
(* both in bundles.                                                        *)
LEMMA DecidableIds ==
    ASSUME NEW S, NEW packs \in Seq(S), AloneFirst(packs)
    PROVE  Cat!OnePerId(packs) <=> Decidable(packs, Len(packs))
<1>1. DOMAIN packs = 1..Len(packs)
  OBVIOUS
<1>2. ASSUME NEW i \in DOMAIN packs, NEW j \in DOMAIN packs, i < j
      PROVE  Decided(packs[i], packs[j]) <=>
                /\ packs[i].source = packs[j].source
                /\ (packs[i].bundle = NoId) # (packs[j].bundle = NoId)
  <2>1. packs[j].bundle = NoId => packs[i].bundle = NoId
    BY <1>2 DEF AloneFirst
  <2> QED BY <2>1 DEF Decided
<1> QED
  BY <1>1, <1>2 DEF Cat!OnePerId, Decidable

(* A scan has the packs that were installed alone first.                   *)
LEMMA AloneThenBundled ==
    ASSUME NEW K, NEW V, NEW L, NEW X, NEW a \in Seq(MadeAlone(K, V, L, X)),
           NEW b \in Seq(MadeBundled(K, V, L, X))
    PROVE  a \o b \in Seq(Made(K, V, L, X)) /\ AloneFirst(a \o b)
<1> DEFINE S == Made(K, V, L, X)
           n == Len(a)
           m == Len(b)
           s == a \o b
<1>1. /\ a \in Seq(S) /\ b \in Seq(S) /\ n \in Nat /\ m \in Nat
      /\ \A i \in 1..n : a[i].bundle = NoId
      /\ \A i \in 1..m : b[i].bundle # NoId
  <2>1. MadeAlone(K, V, L, X) \subseteq S /\ MadeBundled(K, V, L, X) \subseteq S
    BY DEF MadeAlone, MadeBundled
  <2>2. a \in Seq(S) /\ b \in Seq(S)
    <3> HIDE DEF S
    <3> QED BY <2>1, SeqMonotonic
  <2>3. \A i \in 1..n : a[i] \in MadeAlone(K, V, L, X)
    OBVIOUS
  <2>4. \A i \in 1..m : b[i] \in MadeBundled(K, V, L, X)
    OBVIOUS
  <2> QED BY <2>2, <2>3, <2>4 DEF MadeAlone, MadeBundled
<1> HIDE DEF S
<1>2. /\ s \in Seq(S) /\ Len(s) = n + m
      /\ \A i \in 1..n + m : s[i] = IF i <= n THEN a[i] ELSE b[i - n]
  BY <1>1, ConcatProperties
<1> HIDE DEF s, n, m
<1>3. ASSUME NEW i \in DOMAIN s, NEW j \in DOMAIN s, i < j, s[j].bundle = NoId
      PROVE  s[i].bundle = NoId
  <2>1. i \in 1..n + m /\ j \in 1..n + m
    BY <1>1, <1>2
  <2>2. CASE j <= n
    <3>1. i \in 1..n /\ i <= n
      BY <1>1, <1>3, <2>1, <2>2
    <3>2. s[i] = a[i]
      BY <1>2, <2>1, <3>1
    <3> QED BY <1>1, <3>1, <3>2
  <2>3. CASE ~(j <= n)
    <3>1. j - n \in 1..m
      BY <1>1, <2>1, <2>3
    <3>2. s[j] = b[j - n]
      BY <1>2, <2>1, <2>3
    <3> QED BY <1>1, <1>3, <3>1, <3>2
  <2> QED BY <2>2, <2>3
<1> QED
  BY <1>2, <1>3 DEF AloneFirst, S, s

(* There are as many ids as packs just when every pack has its own.        *)
LEMMA UniqueIds ==
    ASSUME NEW S, NEW packs \in Seq(S)
    PROVE  Cat!Unique(packs) <=>
              \A i, j \in DOMAIN packs : packs[i].id = packs[j].id => i = j
<1> DEFINE n   == Len(packs)
           ids == {packs[i].id : i \in DOMAIN packs}
           f   == [i \in 1..n |-> packs[i].id]
<1>1. n \in Nat /\ DOMAIN packs = 1..n
  OBVIOUS
<1>2. f \in Surjection(1..n, ids)
  BY <1>1 DEF Surjection
<1>3. IsFiniteSet(1..n) /\ Cardinality(1..n) = n
  <2>1. 0 \in Int /\ 1 \in Int /\ n \in Int
    BY <1>1
  <2> HIDE DEF n
  <2>2. IsFiniteSet(1..n) /\ Cardinality(1..n) = IF 1 > n THEN 0 ELSE n - 1 + 1
    BY <2>1, FS_Interval
  <2> QED BY <1>1, <2>2
<1>4. Cardinality(ids) = Cardinality(1..n) <=> f \in Injection(1..n, ids)
  <2> HIDE DEF f, ids, n
  <2> QED BY <1>2, <1>3, FS_Surjection
<1>5. f \in [1..n -> ids]
  BY <1>1
<1>6. f \in Injection(1..n, ids) <=>
          \A i, j \in DOMAIN packs : packs[i].id = packs[j].id => i = j
  <2>1. f \in Injection(1..n, ids) <=> \A i, j \in 1..n : f[i] = f[j] => i = j
    <3> HIDE DEF f, ids, n
    <3> QED BY <1>5 DEF Injection, IsInjective
  <2> QED BY <1>1, <2>1
<1>7. Cat!Cardinality(ids) = Cardinality(ids)
  BY Zenon DEF Cat!Cardinality, Cardinality
<1>8. Cat!Unique(packs) <=> Cat!Cardinality(ids) = n
  BY DEF Cat!Unique
<1> QED
  <2> HIDE DEF f, ids, n
  <2> QED BY <1>3, <1>4, <1>6, <1>7, <1>8

(* Behind packs of different ids, more of them with ids of their own.      *)
OwnIds(packs) == \A i, j \in DOMAIN packs : packs[i].id = packs[j].id => i = j
Clash(a, b)   == \E i \in DOMAIN b : \/ \E m \in DOMAIN a : a[m].id = b[i].id
                                     \/ \E j \in 1..i - 1 : b[j].id = b[i].id

(* More packs behind have ids of their own, or there is a clash.           *)
LEMMA IdsBehind ==
    ASSUME NEW S, NEW a \in Seq(S), NEW b \in Seq(S), OwnIds(a)
    PROVE  OwnIds(a \o b) <=> ~Clash(a, b)
<1> DEFINE n == Len(a)
           l == Len(b)
           s == a \o b
           clash == \E i \in DOMAIN b : \/ \E m \in DOMAIN a : a[m].id = b[i].id
                                        \/ \E j \in 1..i - 1 : b[j].id = b[i].id
<1>1. n \in Nat /\ l \in Nat /\ DOMAIN a = 1..n /\ DOMAIN b = 1..l
  OBVIOUS
<1>2. /\ s \in Seq(S) /\ Len(s) = n + l
      /\ \A i \in 1..n + l : s[i] = IF i <= n THEN a[i] ELSE b[i - n]
  BY ConcatProperties
<1>3. DOMAIN s = 1..n + l
  <2> HIDE DEF s, n, l
  <2> QED BY <1>2
<1> HIDE DEF s, n, l
<1>4. \A i \in 1..n : i \in DOMAIN s /\ s[i] = a[i]
  BY <1>1, <1>2, <1>3
<1>5. \A i \in 1..l : n + i \in DOMAIN s /\ s[n + i] = b[i]
  <2> SUFFICES ASSUME NEW i \in 1..l PROVE n + i \in DOMAIN s /\ s[n + i] = b[i]
    OBVIOUS
  <2> DEFINE j == n + i
  <2>1. j \in 1..n + l /\ ~(j <= n) /\ j - n = i
    BY <1>1
  <2> HIDE DEF j
  <2>2. s[j] = b[j - n]
    BY <1>2, <2>1
  <2> QED BY <1>3, <2>1, <2>2 DEF j
<1>6. \A i \in DOMAIN s : i \in 1..n \/ \E h \in 1..l : i = n + h
  <2> SUFFICES ASSUME NEW i \in DOMAIN s, i \notin 1..n PROVE \E h \in 1..l : i = n + h
    OBVIOUS
  <2>1. i - n \in 1..l /\ i = n + (i - n)
    BY <1>1, <1>3
  <2> QED BY <2>1
<1>7. ASSUME \A i, j \in DOMAIN s : s[i].id = s[j].id => i = j PROVE ~clash
  <2> SUFFICES ASSUME NEW i \in DOMAIN b,
                      \/ \E m \in DOMAIN a : a[m].id = b[i].id
                      \/ \E j \in 1..i - 1 : b[j].id = b[i].id
               PROVE  FALSE
    OBVIOUS
  <2>1. i \in 1..l /\ n + i \in DOMAIN s /\ s[n + i].id = b[i].id
    BY <1>1, <1>5
  <2>2. CASE \E m \in DOMAIN a : a[m].id = b[i].id
    <3>1. PICK m \in 1..n : a[m].id = b[i].id
      BY <1>1, <2>2
    <3>2. m \in DOMAIN s /\ s[m].id = b[i].id
      BY <1>4, <3>1
    <3>3. m = n + i
      BY <1>7, <2>1, <3>2
    <3> QED BY <1>1, <2>1, <3>3
  <2>3. CASE \E j \in 1..i - 1 : b[j].id = b[i].id
    <3>1. PICK j \in 1..i - 1 : b[j].id = b[i].id
      BY <2>3
    <3>2. j \in 1..l /\ j < i
      BY <1>1, <2>1
    <3>3. n + j \in DOMAIN s /\ s[n + j].id = b[i].id
      BY <1>5, <3>1, <3>2
    <3>4. n + j = n + i
      BY <1>7, <2>1, <3>3
    <3> QED BY <1>1, <2>1, <3>2, <3>4
  <2> QED BY <2>2, <2>3
<1>8. ASSUME ~clash, NEW i \in DOMAIN s, NEW j \in DOMAIN s, s[i].id = s[j].id PROVE i = j
  <2>1. \A x \in 1..l : \A m \in 1..n : a[m].id # b[x].id
    BY <1>1, <1>8
  <2>2. \A x, y \in 1..l : b[x].id = b[y].id => x = y
    <3> SUFFICES ASSUME NEW x \in 1..l, NEW y \in 1..l, b[x].id = b[y].id, x < y PROVE FALSE
      BY <1>1
    <3>1. x \in 1..y - 1 /\ y \in DOMAIN b
      BY <1>1
    <3> QED BY <1>8, <3>1
  <2>3. CASE i \in 1..n /\ j \in 1..n
    BY <1>1, <1>4, <1>8, <2>3 DEF OwnIds
  <2>4. CASE i \in 1..n /\ j \notin 1..n
    <3>1. PICK y \in 1..l : j = n + y
      BY <1>6, <2>4
    <3> QED BY <1>4, <1>5, <1>8, <2>1, <2>4, <3>1
  <2>5. CASE i \notin 1..n /\ j \in 1..n
    <3>1. PICK x \in 1..l : i = n + x
      BY <1>6, <2>5
    <3> QED BY <1>4, <1>5, <1>8, <2>1, <2>5, <3>1
  <2>6. CASE i \notin 1..n /\ j \notin 1..n
    <3>1. PICK x \in 1..l : i = n + x
      BY <1>6, <2>6
    <3>2. PICK y \in 1..l : j = n + y
      BY <1>6, <2>6
    <3>3. b[x].id = b[y].id
      BY <1>5, <1>8, <3>1, <3>2
    <3> QED BY <2>2, <3>1, <3>2, <3>3
  <2> QED BY <2>3, <2>4, <2>5, <2>6
<1> QED
  BY <1>7, <1>8 DEF s, OwnIds, Clash

(* The themes of a scan,                                                   *)
SameIds(packs, all) ==
    \A x : (\E i \in DOMAIN packs : packs[i].id = x) <=> (\E p \in Cat!ToSet(all) : p.id = x)

(* They are as many as there are ids, if they can be told apart.           *)
LEMMA ThemesFound ==
    ASSUME NEW K, NEW V, NEW L, NEW X, NoId \notin X, Languages \in Seq(L), English \in L,
           NEW files \in Roots(K, V, L, X)
    PROVE  LET all == Cat!Alone(files.themes) \o Cat!Bundled(files, "theme")
               t   == Cat!Themes(files)
           IN /\ t \in Scans(Made(K, V, L, X))
              /\ t.ok <=> Cat!OnePerId(all)
              /\ t.ok => SameIds(t.packs, all)
<1> DEFINE all == Cat!Alone(files.themes) \o Cat!Bundled(files, "theme")
           t   == Cat!Themes(files)
<1>1. files.themes \in Seq(Given(K, V, L, X))
  BY DEF Roots
<1>2. all \in Seq(Made(K, V, L, X)) /\ AloneFirst(all)
  <2>1. Cat!Alone(files.themes) \in Seq(MadeAlone(K, V, L, X))
    BY <1>1, AloneMade
  <2>2. Cat!Bundled(files, "theme") \in Seq(MadeBundled(K, V, L, X))
    BY BundledMade
  <2> QED BY <2>1, <2>2, AloneThenBundled
<1>3. t = Cat!Deduped(all)
  BY DEF Cat!Themes
<1> HIDE DEF all, t
<1>4. t \in Scans(Made(K, V, L, X)) /\ Kept(all, Len(all), t)
  BY <1>2, <1>3, DedupedKept
<1>5. t.ok <=> Cat!OnePerId(all)
  BY <1>2, <1>4, DecidableIds DEF Kept
<1>6. ASSUME t.ok, NEW x
      PROVE  (\E i \in DOMAIN t.packs : t.packs[i].id = x) <=> (\E p \in Cat!ToSet(all) : p.id = x)
  <2>1. DOMAIN all = 1..Len(all)
    BY <1>2
  <2>2. (\E p \in Cat!ToSet(all) : p.id = x) <=> \E i \in 1..Len(all) : all[i].id = x
    BY <2>1 DEF Cat!ToSet
  <2>3. /\ \A m \in DOMAIN t.packs : \E i \in 1..Len(all) : t.packs[m] = all[i]
        /\ \A i \in 1..Len(all) : \E m \in DOMAIN t.packs : t.packs[m].id = all[i].id
    BY <1>4, <1>6 DEF Kept
  <2> QED BY <2>2, <2>3
<1> QED
  <2>1. t.ok => SameIds(t.packs, all)
    BY <1>6 DEF SameIds
  <2> QED BY <1>4, <1>5, <2>1 DEF all, t

(* and its plugins with the old text packs behind them.                    *)
TextClash(files, plugins) ==
    \E i \in DOMAIN files.texts :
        \/ \E p \in Cat!ToSet(plugins) : p.id = files.texts[i].id
        \/ \E j \in 1..i - 1 : files.texts[j].id = files.texts[i].id

(* They fail like the themes; and an old text pack may clash with them.    *)
LEMMA PluginsFound ==
    ASSUME NEW K, NEW V, NEW L, NEW X, NoId \notin X, Languages \in Seq(L), English \in L,
           NEW files \in Roots(K, V, L, X)
    PROVE  LET all == Cat!Alone(files.plugins) \o Cat!Bundled(files, "plugin")
               t   == Cat!Plugins(files)
           IN /\ t \in Scans(Made(K, V, L, X))
              /\ t.ok <=> Cat!OnePerId(all)
              /\ t.ok => (Cat!Unique(t.packs) <=> ~TextClash(files, all))
<1> DEFINE all == Cat!Alone(files.plugins) \o Cat!Bundled(files, "plugin")
           t   == Cat!Plugins(files)
           d   == Cat!Deduped(all)
           old == Cat!Alone(files.texts)
           S   == Made(K, V, L, X)
<1>1. files.plugins \in Seq(Given(K, V, L, X)) /\ files.texts \in Seq(Given(K, V, L, X))
  BY DEF Roots
<1>2. all \in Seq(S) /\ AloneFirst(all)
  <2>1. Cat!Alone(files.plugins) \in Seq(MadeAlone(K, V, L, X))
    BY <1>1, AloneMade
  <2>2. Cat!Bundled(files, "plugin") \in Seq(MadeBundled(K, V, L, X))
    BY BundledMade
  <2> QED BY <2>1, <2>2, AloneThenBundled
<1>3. t = [d EXCEPT !.packs = @ \o old]
  BY DEF Cat!Plugins
<1>4. /\ old \in Seq(S) /\ Len(old) = Len(files.texts)
      /\ \A i \in DOMAIN files.texts : old[i].id = files.texts[i].id
  <2>1. /\ old \in Seq(MadeAlone(K, V, L, X)) /\ Len(old) = Len(files.texts)
        /\ \A i \in DOMAIN files.texts : old[i].id = files.texts[i].id
    BY <1>1, AloneMade
  <2>2. MadeAlone(K, V, L, X) \subseteq S
    BY DEF MadeAlone
  <2> HIDE DEF old, S
  <2> QED BY <2>1, <2>2, SeqMonotonic
<1> HIDE DEF all, t, d, old, S
<1>5. d \in Scans(S) /\ Kept(all, Len(all), d)
  BY <1>2, DedupedKept DEF d
<1>6. d.packs \in Seq(S) /\ d.ok \in BOOLEAN /\ d = [ok |-> d.ok, packs |-> d.packs]
  BY <1>5 DEF Scans
<1>7. t = [ok |-> d.ok, packs |-> d.packs \o old]
  BY <1>3, <1>6
<1>8. t \in Scans(S) /\ t.ok = d.ok /\ t.packs = d.packs \o old
  <2>1. d.packs \o old \in Seq(S)
    BY <1>4, <1>6, ConcatProperties
  <2> QED BY <1>6, <1>7, <2>1 DEF Scans
<1>9. t.ok <=> Cat!OnePerId(all)
  BY <1>2, <1>5, <1>8, DecidableIds DEF Kept
<1>10. ASSUME t.ok PROVE Cat!Unique(t.packs) <=> ~TextClash(files, all)
  <2>1. /\ \A m, h \in DOMAIN d.packs : d.packs[m].id = d.packs[h].id => m = h
        /\ \A m \in DOMAIN d.packs : \E i \in 1..Len(all) : d.packs[m] = all[i]
        /\ \A i \in 1..Len(all) : \E m \in DOMAIN d.packs : d.packs[m].id = all[i].id
    BY <1>5, <1>8, <1>10 DEF Kept
  <2>2. Cat!Unique(t.packs) <=> OwnIds(t.packs)
    <3>1. t.packs \in Seq(S)
      BY <1>8 DEF Scans
    <3> QED BY <3>1, UniqueIds DEF OwnIds
  <2>3. OwnIds(t.packs) <=> ~Clash(d.packs, old)
    <3>1. OwnIds(d.packs)
      BY <2>1 DEF OwnIds
    <3> QED BY <1>4, <1>6, <1>8, <3>1, IdsBehind
  <2>4. Clash(d.packs, old) <=> TextClash(files, all)
    <3>1. /\ DOMAIN all = 1..Len(all) /\ DOMAIN old = DOMAIN files.texts
          /\ Len(old) \in Nat /\ DOMAIN old = 1..Len(old)
      BY <1>1, <1>2, <1>4
    <3>2. \A x : (\E m \in DOMAIN d.packs : d.packs[m].id = x) <=>
                 (\E p \in Cat!ToSet(all) : p.id = x)
      BY <2>1, <3>1 DEF Cat!ToSet
    <3>3. \A i \in DOMAIN old : \A j \in 1..i - 1 : j \in DOMAIN old
      BY <3>1
    <3>4. ASSUME NEW i \in DOMAIN old
          PROVE  (\E j \in 1..i - 1 : old[j].id = old[i].id) <=>
                 (\E j \in 1..i - 1 : files.texts[j].id = files.texts[i].id)
      BY <1>4, <3>1, <3>3
    <3>5. \A i \in DOMAIN old : (\E m \in DOMAIN d.packs : d.packs[m].id = old[i].id) <=>
                                (\E p \in Cat!ToSet(all) : p.id = files.texts[i].id)
      BY <1>4, <3>1, <3>2
    <3> QED BY <3>1, <3>4, <3>5 DEF TextClash, Clash
  <2> QED BY <2>2, <2>3, <2>4
<1> QED
  BY <1>8, <1>9, <1>10 DEF all, t, S

(* Whatever packs the resource directories hold, with whatever texts, and  *)
(* whatever the settings ask for: LoadCatalog fails only for packs of one  *)
(* id that no rule decides between, a misplaced pack or a missing default  *)
(* theme; every message has the text of the first of the active plugins,   *)
(* the theme and the default theme that gives one; a language that only    *)
(* plugins know is a full translation of the theme; and the selection, the *)
(* language and the order it writes back lead to the same catalog again.   *)
LEMMA TextsAlwaysLayered ==
    ASSUME NEW K, NEW V, NEW L, NEW X, NoId \notin X, Languages \in Seq(L), English \in L,
           NEW files \in Roots(K, V, L, X),
           NEW selection \in [enabled : BOOLEAN, id : X \cup {NoId}], NEW locale, NEW order \in Seq(X)
    PROVE  Cat!TextsLayered(files, selection, locale, order)
<1> DEFINE themes  == Cat!Alone(files.themes) \o Cat!Bundled(files, "theme")
           plugins == Cat!Alone(files.plugins) \o Cat!Bundled(files, "plugin")
           t == Cat!Themes(files)
           p == Cat!Plugins(files)
           c == Cat!LoadCatalog(files, selection, locale, order)
           undecided == Cat!Undecided(files, themes, plugins)
<1>1. /\ t \in Scans(Made(K, V, L, X))
      /\ t.ok <=> Cat!OnePerId(themes)
      /\ t.ok => SameIds(t.packs, themes)
  BY ThemesFound
<1>2. /\ p \in Scans(Made(K, V, L, X))
      /\ p.ok <=> Cat!OnePerId(plugins)
      /\ p.ok => (Cat!Unique(p.packs) <=> ~TextClash(files, plugins))
  BY PluginsFound
<1>3. undecided <=> \/ ~Cat!WellPlaced(files)
                    \/ ~Cat!OnePerId(themes) \/ ~Cat!OnePerId(plugins)
                    \/ TextClash(files, plugins)
                    \/ \A q \in Cat!ToSet(themes) : q.id # DefaultId
  <2> HIDE DEF themes, plugins
  <2> QED BY DEF Cat!Undecided, TextClash
<1> HIDE DEF themes, plugins, t, p
<1>4. (c.ok <=> ~undecided) /\ (c.ok => /\ Cat!TextsRight(c, Cat!Layers(c))
                                        /\ Cat!LoadCatalog(files, c.selection, c.locale, c.order) = c)
  <2>1. CASE ~Cat!WellPlaced(files)
    <3>1. c = [ok |-> FALSE]
      BY <2>1 DEF Cat!LoadCatalog, Cat!NoCatalog
    <3>2. c.ok = FALSE
      BY <3>1
    <3> HIDE DEF c, undecided
    <3> QED BY <1>3, <2>1, <3>2
  <2>2. CASE Cat!WellPlaced(files)
    <3>1. \A s, l, o : Cat!LoadCatalog(files, s, l, o) = Cat!FromPacks(t, p, s, l, o)
      BY <2>2 DEF Cat!LoadCatalog, t, p
    <3>2. c = Cat!FromPacks(t, p, selection, locale, order)
      BY <3>1
    <3>3. /\ t \in [ok : BOOLEAN, packs : Seq(Packs(K, V, L, X))]
          /\ p \in [ok : BOOLEAN, packs : Seq(Packs(K, V, L, X))]
          /\ \A i \in DOMAIN t.packs : t.packs[i].locales = DOMAIN t.packs[i].texts
      <4> DEFINE S == Made(K, V, L, X)
                 P == Packs(K, V, L, X)
      <4>1. S \subseteq P /\ \A q \in S : q.locales = DOMAIN q.texts
        BY DEF Made
      <4> HIDE DEF S, P
      <4>2. Seq(S) \subseteq Seq(P)
        BY <4>1, SeqMonotonic
      <4>3. /\ t \in [ok : BOOLEAN, packs : Seq(S)] /\ p \in [ok : BOOLEAN, packs : Seq(S)]
        BY <1>1, <1>2 DEF Scans, S
      <4>4. /\ t \in [ok : BOOLEAN, packs : Seq(P)] /\ p \in [ok : BOOLEAN, packs : Seq(P)]
        BY <4>2, <4>3
      <4>5. \A i \in DOMAIN t.packs : t.packs[i] \in S
        BY <4>3
      <4> QED BY <4>1, <4>4, <4>5 DEF P
    <3> HIDE DEF c, undecided
    <3>4. LoadedRight(t, p, c)
      BY <3>2, <3>3, FromPacksRight
    <3>5. (t.ok /\ p.ok /\ Cat!Unique(p.packs) /\ \E i \in DOMAIN t.packs : t.packs[i].id = DefaultId)
          <=> ~undecided
      BY <1>1, <1>2, <1>3, <2>2 DEF SameIds
    <3> QED BY <3>1, <3>4, <3>5 DEF LoadedRight
  <2> QED BY <2>1, <2>2
<1>5. Cat!RightCatalog(c, files, themes, plugins)
  <2> HIDE DEF c
  <2> QED BY <1>4 DEF Cat!RightCatalog
<1> QED
  <2> HIDE DEF c
  <2> QED BY <1>5 DEF Cat!TextsLayered, c, themes, plugins

(* Hence TextsLayered, for inputs of any size: any packs, settings and     *)
(* messages that LoadCatalog may be given.                                 *)
CatalogInputs(K, V, L, X) ==
    [files : Roots(K, V, L, X), selection : [enabled : BOOLEAN, id : X \cup {NoId}],
     locale : L \cup {NoId}, order : Seq(X)]

THEOREM EveryTextLayered ==
    ASSUME NEW K, NEW V, NEW L, NEW X, NoId \notin X, Languages \in Seq(L), English \in L,
           input \in {"catalog"} \X CatalogInputs(K, V, L, X)
    PROVE  TextsLayered
<1> DEFINE c == input[2]
<1>1. /\ c.files \in Roots(K, V, L, X)
      /\ c.selection \in [enabled : BOOLEAN, id : X \cup {NoId}]
      /\ c.order \in Seq(X)
  BY DEF CatalogInputs
<1> HIDE DEF c
<1>2. Cat!TextsLayered(c.files, c.selection, c.locale, c.order)
  BY <1>1, TextsAlwaysLayered
<1> QED BY <1>2 DEF TextsLayered, c
=============================================================================
