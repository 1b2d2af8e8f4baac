------------------------ MODULE PublishedCatalogProofs ------------------------
(***************************************************************************)
(* Proofs about PublishedCatalog for every set of images, versions, names, *)
(* artifacts and blobs, and blobs of every size.                           *)
(***************************************************************************)
EXTENDS PublishedCatalog, ByteRangesProofs

-----------------------------------------------------------------------------
(* What publishers do to the catalog.                                       *)

\* What holds of the rows, whoever reads them.
CatalogHolds ==
    /\ CatalogTypeOK
    /\ RowsAreServed
    /\ VersionsBelong
    /\ FrozenIsTrusted
    /\ AliasesArePublished

\* The change of one statement or transaction of a publisher.
CatalogStep ==
    \/ \E i \in Image : CreateImage(i)
    \/ \E v \in Version : \/ CreateDraftVersion(v)
                          \/ EditManifest(v)
                          \/ Freeze(v) /\ UNCHANGED <<images, versions, alias>>
                          \/ Release(v) /\ UNCHANGED <<images, versions, alias>>
    \/ \E b \in Blob : Verify(b) /\ UNCHANGED <<images, versions, alias>>
    \/ \E i \in Image, n \in Name : DeleteAlias(i, n) \/ \E m \in Name : PutAlias(i, n, m)
    \/ UNCHANGED catalog

\* A publisher changes the catalog, a client its own record.
LEMMA StepsAreCatalogSteps ==
    ASSUME [Next]_vars
    PROVE  /\ CatalogStep
           /\ UNCHANGED client \/ (Client /\ UNCHANGED catalog)
<1>1. CASE Publisher
  BY <1>1 DEF Publisher, CatalogStep, NewImage, NewDraft, MoveAlias, RemoveAlias, EditManifest, TrustBlob,
     PublishVersion, FinishPublishing, Rest
<1>2. CASE Client
  <2>1. UNCHANGED catalog
    BY <1>2 DEF Client, Reads, ListImages, FindPublicImage, ListVersions, ResolveManifest, GetVersionManifest,
       LookUpAlias, ResolveExact, ResolveAlias, ListPublishedArtifacts, ListArtifacts, ListAttachments,
       FetchIndex, ListProjectionRows, ReadAliases, DownloadFromManifest, DownloadFromMirror, FindFile,
       OpenBlob, Leave
  <2> QED BY <1>2, <2>1 DEF CatalogStep
<1>3. CASE UNCHANGED vars
  BY <1>3 DEF vars, CatalogStep
<1> QED BY <1>1, <1>2, <1>3 DEF Next

\* Nothing that was frozen changes, and nothing goes away but drafts' content and aliases.
Grows ==
    /\ images \subseteq images' /\ versions \subseteq versions'
    /\ served \subseteq served' /\ verified \subseteq verified'
    /\ \A v \in Version : state[v] # "draft" => state'[v] # "draft" /\ content'[v] = content[v]
    /\ \A v \in Version : state[v] = "published" => state'[v] = "published"

LEMMA CatalogGrows ==
    ASSUME CatalogTypeOK, CatalogStep
    PROVE  Grows
<1> USE DEF CatalogTypeOK, Grows
<1>1. CASE UNCHANGED rvars
  BY <1>1 DEF rvars, CatalogStep, CreateImage, CreateDraftVersion, DeleteAlias, PutAlias, catalog,
     EditManifest, Revise, Freeze, Release, Verify
<1>2. ASSUME NEW v \in Version, EditManifest(v) PROVE Grows
  BY <1>2 DEF EditManifest, Revise
<1>3. ASSUME NEW v \in Version, Freeze(v), UNCHANGED <<images, versions, alias>> PROVE Grows
  BY <1>3 DEF Freeze
<1>4. ASSUME NEW v \in Version, Release(v), UNCHANGED <<images, versions, alias>> PROVE Grows
  BY <1>4 DEF Release
<1>5. ASSUME NEW b \in Blob, Verify(b), UNCHANGED <<images, versions, alias>> PROVE Grows
  BY <1>5 DEF Verify
<1> QED BY <1>1, <1>2, <1>3, <1>4, <1>5 DEF CatalogStep, CreateImage, CreateDraftVersion, DeleteAlias, PutAlias, catalog

\* The rows of a content, one by one.
LEMMA RowsOfContent ==
    ASSUME NEW c \in Manifests
    PROVE  /\ \A row \in RowsOf(c) :
                 /\ row \in [artifact : Artifact, disk : Blob, meta : Blob]
                 /\ row.disk = c.disk[row.artifact] /\ row.meta = c.meta[row.artifact]
                 /\ row = [artifact |-> row.artifact, disk |-> c.disk[row.artifact],
                           meta |-> c.meta[row.artifact]]
           /\ \A a \in Artifact : c.disk[a] # None /\ c.meta[a] # None =>
                 \E row \in RowsOf(c) : row.artifact = a
<1>1. c.disk \in Cited /\ c.meta \in Cited
  BY DEF Manifests
<1>2. ASSUME NEW row \in RowsOf(c)
      PROVE  /\ row \in [artifact : Artifact, disk : Blob, meta : Blob]
             /\ row.disk = c.disk[row.artifact] /\ row.meta = c.meta[row.artifact]
             /\ row = [artifact |-> row.artifact, disk |-> c.disk[row.artifact],
                       meta |-> c.meta[row.artifact]]
  <2>1. PICK a \in Artifact : /\ c.disk[a] # None /\ c.meta[a] # None
                              /\ row = [artifact |-> a, disk |-> c.disk[a], meta |-> c.meta[a]]
    BY DEF RowsOf
  <2> QED BY <1>1, <2>1 DEF Cited
<1>3. ASSUME NEW a \in Artifact, c.disk[a] # None, c.meta[a] # None
      PROVE  \E row \in RowsOf(c) : row.artifact = a
  <2>1. [artifact |-> a, disk |-> c.disk[a], meta |-> c.meta[a]] \in RowsOf(c)
    BY <1>3 DEF RowsOf
  <2> QED BY <2>1
<1> QED BY <1>2, <1>3

\* Rows keep their types.
LEMMA CatalogTypes ==
    ASSUME CatalogTypeOK, CatalogStep
    PROVE  CatalogTypeOK'
<1> USE DEF CatalogTypeOK
<1>1. ASSUME NEW v \in Version, EditManifest(v) PROVE CatalogTypeOK'
  BY <1>1 DEF EditManifest, Revise
<1>2. ASSUME NEW v \in Version, Freeze(v), UNCHANGED <<images, versions, alias>> PROVE CatalogTypeOK'
  BY <1>2 DEF Freeze
<1>3. ASSUME NEW v \in Version, Release(v), UNCHANGED <<images, versions, alias>> PROVE CatalogTypeOK'
  <2>1. {v} \X RowsOf(content[v]) \subseteq Version \X [artifact : Artifact, disk : Blob, meta : Blob]
    BY RowsOfContent
  <2> QED BY <1>3, <2>1 DEF Release
<1>4. ASSUME NEW b \in Blob, Verify(b), UNCHANGED <<images, versions, alias>> PROVE CatalogTypeOK'
  BY <1>4 DEF Verify
<1>5. ASSUME NEW i \in Image, NEW n \in Name, DeleteAlias(i, n) PROVE CatalogTypeOK'
  BY <1>5 DEF DeleteAlias, rvars
<1>6. ASSUME NEW i \in Image, NEW n \in Name, NEW m \in Name, PutAlias(i, n, m) PROVE CatalogTypeOK'
  BY <1>6 DEF PutAlias, Versions, rvars
<1>7. ASSUME NEW i \in Image, CreateImage(i) PROVE CatalogTypeOK'
  BY <1>7 DEF CreateImage, rvars
<1>8. ASSUME NEW v \in Version, CreateDraftVersion(v) PROVE CatalogTypeOK'
  BY <1>8 DEF CreateDraftVersion, rvars
<1>9. CASE UNCHANGED catalog
  BY <1>9 DEF catalog, rvars
<1> QED BY <1>1, <1>2, <1>3, <1>4, <1>5, <1>6, <1>7, <1>8, <1>9 DEF CatalogStep

\* What is served is what was frozen.
LEMMA RowsStayServed ==
    ASSUME CatalogHolds, CatalogStep
    PROVE  RowsAreServed'
<1>1. CatalogTypeOK /\ RowsAreServed /\ Grows
  BY CatalogGrows DEF CatalogHolds
<1>2. ASSUME NEW v \in Version, Release(v) PROVE RowsAreServed'
  <2>1. /\ state' = [state EXCEPT ![v] = "published"] /\ UNCHANGED content
        /\ served' = served \cup ({v} \X RowsOf(content[v]))
    BY <1>2 DEF Release
  <2>2. ASSUME NEW x \in served' PROVE state'[x[1]] = "published" /\ x[2] \in RowsOf(content'[x[1]])
    BY <1>1, <2>1, <2>2 DEF RowsAreServed, CatalogTypeOK
  <2>3. ASSUME NEW w \in Version, state'[w] = "published", NEW row \in RowsOf(content'[w])
        PROVE  <<w, row>> \in served'
    BY <1>1, <2>1, <2>3 DEF RowsAreServed, CatalogTypeOK
  <2> QED BY <2>2, <2>3 DEF RowsAreServed
<1>3. CASE UNCHANGED served /\ \A v \in Version : state'[v] = "published" => state[v] = "published"
  <2>1. ASSUME NEW x \in served' PROVE state'[x[1]] = "published" /\ x[2] \in RowsOf(content'[x[1]])
    <3>1. x \in served /\ x[1] \in Version
      BY <1>1, <1>3, <2>1 DEF CatalogTypeOK
    <3> QED BY <1>1, <3>1 DEF RowsAreServed, Grows
  <2>2. ASSUME NEW w \in Version, state'[w] = "published", NEW row \in RowsOf(content'[w])
        PROVE  <<w, row>> \in served'
    <3>1. state[w] = "published" /\ content'[w] = content[w]
      BY <1>1, <1>3, <2>2 DEF Grows
    <3> QED BY <1>1, <1>3, <2>2, <3>1 DEF RowsAreServed
  <2> QED BY <2>1, <2>2 DEF RowsAreServed
<1>4. \/ \E v \in Version : Release(v)
      \/ UNCHANGED served /\ \A v \in Version : state'[v] = "published" => state[v] = "published"
  <2> DEFINE Unreleased == UNCHANGED served /\ \A v \in Version : state'[v] = "published" => state[v] = "published"
  <2>1. ASSUME NEW v \in Version, Freeze(v) PROVE Unreleased
    BY <1>1, <2>1 DEF Freeze, CatalogTypeOK
  <2>2. ASSUME UNCHANGED <<state, served>> PROVE Unreleased
    BY <2>2
  <2> HIDE DEF Unreleased
  <2>3. (\E v \in Version : Freeze(v) \/ Release(v)) \/ UNCHANGED <<state, served>>
    BY DEF CatalogStep, CreateImage, CreateDraftVersion, EditManifest, Revise, Verify, DeleteAlias, PutAlias,
       catalog, rvars
  <2> QED BY <2>1, <2>2, <2>3 DEF Unreleased
<1> QED BY <1>2, <1>3, <1>4

\* Versions stay in images that exist.
LEMMA VersionsStay ==
    ASSUME CatalogHolds, CatalogStep
    PROVE  VersionsBelong'
<1>1. CatalogTypeOK /\ VersionsBelong /\ Grows
  BY CatalogGrows DEF CatalogHolds
<1>2. ASSUME NEW v \in Version, EditManifest(v) PROVE VersionsBelong'
  <2>1. /\ v \in versions /\ UNCHANGED <<images, versions>>
        /\ \A w \in Version \ {v} : content'[w] = content[w]
        /\ \A a \in Artifact : content'[v].disk[a] = None => content'[v].meta[a] = None
    BY <1>1, <1>2 DEF EditManifest, Revise, CatalogTypeOK
  <2> QED BY <1>1, <2>1 DEF VersionsBelong
<1>3. CASE UNCHANGED content
  BY <1>1, <1>3 DEF VersionsBelong, CatalogStep, CreateImage, CreateDraftVersion, EditManifest, DeleteAlias, PutAlias,
     catalog, Grows
<1>4. (\E v \in Version : EditManifest(v)) \/ UNCHANGED content
  BY DEF CatalogStep, CreateImage, CreateDraftVersion, Freeze, Release, Verify, DeleteAlias, PutAlias, catalog, rvars
<1> QED BY <1>2, <1>3, <1>4

\* Only what is verified is ever frozen.
LEMMA FrozenStaysTrusted ==
    ASSUME CatalogHolds, CatalogStep
    PROVE  FrozenIsTrusted'
<1>1. CatalogTypeOK /\ VersionsBelong /\ FrozenIsTrusted /\ Grows
  BY CatalogGrows DEF CatalogHolds
<1>2. ASSUME NEW v \in Version, state'[v] # "draft", state[v] = "draft"
      PROVE  Freeze(v) /\ UNCHANGED <<images, versions, alias>>
  BY <1>1, <1>2 DEF CatalogStep, CreateImage, CreateDraftVersion, EditManifest, Revise, Freeze, Release, Verify,
     DeleteAlias, PutAlias, catalog, rvars, CatalogTypeOK
<1> SUFFICES ASSUME NEW v \in Version, state'[v] # "draft"
             PROVE  /\ v \in versions'
                    /\ \A a \in Artifact :
                          {content'[v].disk[a], content'[v].meta[a]} \subseteq verified' \cup {None}
  BY DEF FrozenIsTrusted
<1>3. CASE state[v] = "draft"
  <2>1. Freeze(v) /\ UNCHANGED versions
    BY <1>2, <1>3
  <2>2. v \in versions
    BY <1>1, <2>1 DEF Freeze, VersionsBelong
  <2> QED BY <2>1, <2>2 DEF Freeze
<1>4. CASE state[v] # "draft"
  BY <1>1, <1>4 DEF Grows, FrozenIsTrusted
<1> QED BY <1>3, <1>4

\* An alias is moved to published versions only.
LEMMA AliasesStayPublished ==
    ASSUME CatalogHolds, CatalogStep
    PROVE  AliasesArePublished'
<1>1. CatalogTypeOK /\ AliasesArePublished /\ Grows
  BY CatalogGrows DEF CatalogHolds
<1>2. \A i \in Image : Published(i) \subseteq Published(i)'
  BY <1>1 DEF Grows, Published, CatalogTypeOK
<1>3. ASSUME NEW i \in Image, NEW n \in Name, alias'[i][n] \notin {alias[i][n], None}
      PROVE  alias'[i][n] \in Published(i)
  BY <1>1, <1>3 DEF CatalogStep, CreateImage, CreateDraftVersion, EditManifest, DeleteAlias, PutAlias, Versions,
     MayBeAliased, Published, catalog, CatalogTypeOK
<1> QED BY <1>1, <1>2, <1>3 DEF AliasesArePublished

LEMMA CatalogStays ==
    ASSUME CatalogHolds, CatalogStep
    PROVE  CatalogHolds' /\ Grows
BY CatalogGrows, CatalogTypes, RowsStayServed, VersionsStay, FrozenStaysTrusted, AliasesStayPublished DEF CatalogHolds

-----------------------------------------------------------------------------
(* What clients know.                                                       *)

\* What holds of the record of a client.
ClientHolds(c) ==
    /\ c \in ClientRecord /\ {c.v, c.fixed} \subseteq versions \cup {None} /\ c.metas \subseteq c.disks
    /\ ReferencesHold(c)
    /\ ReadsAgree(c)
    /\ FilesExist(c)
    /\ DocumentsAgree(c)

\* Whatever publishers do, what a client knows stays true.
LEMMA ClientsAreUndisturbed ==
    ASSUME CatalogHolds, Grows, UNCHANGED client, ClientHolds(client)
    PROVE  ClientHolds(client)'
<1>1. CatalogTypeOK /\ client \in ClientRecord
  BY DEF CatalogHolds, ClientHolds
<1>2. client' \in ClientRecord' /\ ({client.v, client.fixed} \subseteq versions \cup {None})'
  BY <1>1 DEF Grows, ClientHolds, ClientRecord
<1>3. ReferencesHold(client)'
  BY DEF Grows, ClientHolds, ReferencesHold, PublicImages, Published, ExactVersions, Versions, CatalogHolds, CatalogTypeOK
<1>4. ReadsAgree(client)'
  BY <1>1 DEF Grows, ClientHolds, ReadsAgree, ArtifactsOf, CatalogTypeOK
<1>5. FilesExist(client)'
  <2>1. client.at \in {"file", "open", "bytes"} => client.file.v \in Version
    BY <1>1 DEF ClientHolds, FilesExist, ClientRecord, File
  <2> QED BY <2>1 DEF Grows, ClientHolds, FilesExist
<1>6. DocumentsAgree(client)'
  BY DEF ClientHolds, DocumentsAgree
<1> QED BY <1>1, <1>2, <1>3, <1>4, <1>5, <1>6 DEF ClientHolds

\* A client step changes nothing of what these speak of but the record.
LEMMA ClientsOnlyRead ==
    ASSUME UNCHANGED catalog, ClientHolds(client')
    PROVE  ClientHolds(client)'
BY DEF catalog, rvars, ClientHolds, ClientRecord, ReferencesHold, PublicImages, Published, ExactVersions, Versions,
   ReadsAgree, ArtifactsOf, FilesExist, DocumentsAgree

\* A client that knows nothing.
LEMMA IdleHolds == ClientHolds(Idle) /\ Idle.at = "idle"
<1>1. Idle \in ClientRecord
  BY DEF Idle, ClientRecord, ClientAt
<1> QED BY <1>1 DEF Idle, ClientHolds, ReferencesHold, ReadsAgree, FilesExist, DocumentsAgree

\* The exact version of a name is the only published one that bears it.
LEMMA ExactVersionIsUnique ==
    ASSUME CatalogTypeOK, NEW i, NEW n, NEW v \in ExactVersions(i, n)
    PROVE  /\ v \in versions /\ v \in Version /\ Home[v] = i /\ NameOf[v] = n /\ state[v] = "published"
           /\ ExactVersions(i, n) = {v} /\ Holder(i, n) = v
<1>1. /\ v \in versions /\ v \in Version /\ Home[v] = i /\ NameOf[v] = n /\ state[v] = "published"
  BY DEF ExactVersions, Versions, Published, CatalogTypeOK
<1>2. ExactVersions(i, n) = {v}
  BY <1>1, NamesAreUnique DEF ExactVersions, Versions, Published, CatalogTypeOK
<1>3. Holder(i, n) = v
  BY <1>2 DEF Holder
<1> QED BY <1>1, <1>2, <1>3

\* Asking by a name remembers the version that holds it.
LEMMA AskingHolds ==
    ASSUME CatalogTypeOK, NEW i \in Image, NEW n \in Name, NEW follows \in BOOLEAN, Ask(i, n, follows),
           follows => ExactVersions(i, n) # {}
    PROVE  ClientHolds(client')
<1> DEFINE h == Holder(i, n)
<1>1. PICK want \in {"manifest", "artifacts"} :
         client' = [Idle EXCEPT !.at = "exact", !.follows = follows, !.want = want,
                                !.image = i, !.name = n, !.fixed = h]
  BY DEF Ask
<1>2. /\ h \in versions \cup {None} /\ h \in Version \cup {None}
      /\ h # None => h \in ExactVersions(i, n)
      /\ follows => h # None
  <2>1. CASE ExactVersions(i, n) = {}
    BY <2>1 DEF Holder
  <2>2. CASE ExactVersions(i, n) # {}
    <3>1. PICK v : v \in ExactVersions(i, n)
      BY <2>2
    <3>2. v \in versions /\ v \in Version /\ h = v
      BY <3>1, ExactVersionIsUnique
    <3> QED BY <3>1, <3>2, NamesAssumption
  <2> QED BY <2>1, <2>2
<1> HIDE DEF h
<1>3. client' \in ClientRecord
  BY <1>1, <1>2, ZenonT(60) DEF Idle, ClientRecord, ClientAt
<1>4. /\ client'.at = "exact" /\ client'.follows = follows /\ client'.image = i /\ client'.name = n
      /\ client'.fixed = h /\ client'.v = None /\ client'.metas = {} /\ client'.disks = {}
  BY <1>1 DEF Idle
<1> QED BY <1>2, <1>3, <1>4 DEF ClientHolds, ReferencesHold, ReadsAgree, FilesExist, DocumentsAgree

\* A guess that is not found leads back to the start.
LEMMA NotFoundHolds ==
    ASSUME NotFound, ~client.follows
    PROVE  ClientHolds(client')
<1>1. client' = Idle
  BY DEF NotFound, Idle
<1> QED BY <1>1, IdleHolds

\* Finding an image and its versions, and naming a version.
LEMMA BrowsingHolds ==
    ASSUME CatalogHolds, ClientHolds(client),
           \/ ListImages \/ FindPublicImage \/ ListVersions \/ LookUpAlias
           \/ \E i \in Image, n \in Name : ResolveManifest(i, n)
    PROVE  ClientHolds(client')
<1>1. CatalogTypeOK /\ AliasesArePublished /\ client \in ClientRecord
  BY DEF CatalogHolds, ClientHolds
<1>2. \A i \in Image : \A v \in Published(i) :
         v \in Version /\ NameOf[v] \in Name /\ ExactVersions(i, NameOf[v]) # {}
  <2> TAKE i \in Image
  <2> TAKE v \in Published(i)
  <2>1. v \in versions /\ Home[v] = i /\ state[v] = "published"
    BY DEF Published
  <2>2. v \in ExactVersions(i, NameOf[v])
    BY <2>1 DEF ExactVersions, Versions, Published
  <2> QED BY <1>1, <2>1, <2>2, NamesAssumption DEF CatalogTypeOK
<1>3. CASE ListImages
  <2>1. PICK i \in PublicImages : client' = [Idle EXCEPT !.at = "image", !.follows = TRUE, !.image = i]
    BY <1>3 DEF ListImages
  <2>2. i \in Image
    BY <1>1 DEF PublicImages, CatalogTypeOK
  <2>3. client' \in ClientRecord
    BY <2>1, <2>2 DEF Idle, ClientRecord, ClientAt
  <2>4. /\ client'.at = "image" /\ client'.image = i /\ client'.v = None /\ client'.fixed = None
        /\ client'.metas = {} /\ client'.disks = {}
    BY <2>1 DEF Idle
  <2> QED BY <2>3, <2>4 DEF ClientHolds, ReferencesHold, ReadsAgree, FilesExist, DocumentsAgree
<1>4. CASE FindPublicImage
  <2>1. client.image \in PublicImages /\ client.at = "image"
    BY <1>4 DEF FindPublicImage, ClientHolds, ReferencesHold
  <2>2. client' = [client EXCEPT !.at = "versions"]
    BY <1>4, <2>1 DEF FindPublicImage
  <2>3. client' \in ClientRecord
    BY <1>1, <2>2 DEF ClientRecord, ClientAt
  <2>4. /\ client'.at = "versions" /\ client'.image = client.image /\ client'.v = client.v
        /\ client'.fixed = client.fixed /\ client'.metas = client.metas /\ client'.disks = client.disks
    BY <1>1, <2>2 DEF ClientRecord
  <2> QED BY <2>1, <2>3, <2>4 DEF ClientHolds, ReferencesHold, ReadsAgree, FilesExist, DocumentsAgree
<1>5. CASE ListVersions
  <2>1. client.image \in PublicImages /\ client.image \in Image /\ Published(client.image) # {}
    BY <1>1, <1>5 DEF ListVersions, ClientHolds, ReferencesHold, PublicImages, CatalogTypeOK
  <2>2. PICK v \in Published(client.image) : Ask(client.image, NameOf[v], TRUE)
    BY <1>5, <2>1 DEF ListVersions
  <2> QED BY <1>1, <1>2, <2>1, <2>2, AskingHolds
<1>6. CASE LookUpAlias
  <2>1. PICK i \in Image : \E target \in ListAliases(i) : Ask(i, NameOf[target[2]], TRUE)
    BY <1>6 DEF LookUpAlias
  <2>2. PICK n \in Name : alias[i][n] # None /\ Ask(i, NameOf[alias[i][n]], TRUE)
    <3>1. PICK target \in ListAliases(i) : Ask(i, NameOf[target[2]], TRUE)
      BY <2>1
    <3>2. PICK n \in Name : alias[i][n] # None /\ target = <<n, alias[i][n]>>
      BY DEF ListAliases
    <3>3. target[2] = alias[i][n]
      BY <3>2
    <3> QED BY <3>1, <3>2, <3>3
  <2>3. alias[i][n] \in Published(i)
    BY <1>1, <2>2 DEF AliasesArePublished
  <2> QED BY <1>1, <1>2, <2>2, <2>3, AskingHolds
<1>7. ASSUME NEW i \in Image, NEW n \in Name, ResolveManifest(i, n) PROVE ClientHolds(client')
  BY <1>1, <1>7, AskingHolds DEF ResolveManifest
<1> QED BY <1>3, <1>4, <1>5, <1>6, <1>7

\* Resolving a name: an exact version, or else the version an alias names.
LEMMA ResolvingHolds ==
    ASSUME CatalogHolds, ClientHolds(client), ResolveExact \/ ResolveAlias
    PROVE  ClientHolds(client')
<1>1. CatalogTypeOK /\ client \in ClientRecord /\ client.metas = {}
  BY DEF CatalogHolds, ClientHolds, ReadsAgree, ResolveExact, ResolveAlias
<1>2. ASSUME NEW v \in versions, Home[v] = client.image, state[v] = "published",
             client.fixed # None => client.fixed = v, Resolved(v)
      PROVE  ClientHolds(client')
  <2>1. client' = [client EXCEPT !.at = "artifacts", !.v = v, !.seen = "published"]
    BY <1>2 DEF Resolved
  <2>2. client' \in ClientRecord
    BY <1>1, <1>2, <2>1, ZenonT(60) DEF ClientRecord, ClientAt, CatalogTypeOK
  <2>3. /\ client'.at = "artifacts" /\ client'.v = v /\ client'.seen = "published" /\ client'.image = client.image
        /\ client'.fixed = client.fixed /\ client'.metas = {} /\ client'.disks = client.disks
    BY <1>1, <2>1 DEF ClientRecord
  <2> QED BY <1>2, <2>2, <2>3 DEF ClientHolds, ReferencesHold, ReadsAgree, FilesExist, DocumentsAgree
<1>3. CASE ResolveExact
  <2> DEFINE found == ExactVersions(client.image, client.name)
  <2>1. client.fixed # None => client.fixed \in found
    BY <1>3 DEF ResolveExact, ClientHolds, ReferencesHold
  <2>2. client.follows => client.fixed # None
    BY <1>3 DEF ResolveExact, ClientHolds, ReferencesHold
  <2>3. ASSUME NEW v \in found, Resolved(v) PROVE ClientHolds(client')
    <3>1. /\ v \in versions /\ Home[v] = client.image /\ state[v] = "published" /\ found = {v}
      BY <1>1, ExactVersionIsUnique
    <3> QED BY <1>2, <2>1, <2>3, <3>1
  <2>4. CASE found = {} /\ client' = [client EXCEPT !.at = "alias"]
    <3>1. client.fixed = None /\ ~client.follows
      BY <2>1, <2>2, <2>4
    <3>2. client' \in ClientRecord
      BY <1>1, <2>4 DEF ClientRecord, ClientAt
    <3>3. /\ client'.at = "alias" /\ client'.fixed = None /\ ~client'.follows /\ client'.v = client.v
          /\ client'.metas = {} /\ client'.disks = client.disks
      BY <1>1, <2>4, <3>1 DEF ClientRecord
    <3> QED BY <3>2, <3>3 DEF ClientHolds, ReferencesHold, ReadsAgree, FilesExist, DocumentsAgree
  <2>5. CASE found = {} /\ NotFound
    BY <2>1, <2>2, <2>5, NotFoundHolds
  <2> QED BY <1>3, <2>3, <2>4, <2>5 DEF ResolveExact
<1>4. CASE ResolveAlias
  <2>1. client.fixed = None /\ ~client.follows
    BY <1>4 DEF ResolveAlias, ClientHolds, ReferencesHold
  <2>2. ASSUME NEW v \in AliasedVersions(client.image, client.name), Resolved(v) PROVE ClientHolds(client')
    BY <1>2, <2>1, <2>2 DEF AliasedVersions, Published
  <2> QED BY <1>4, <2>1, <2>2, NotFoundHolds DEF ResolveAlias
<1> QED BY <1>3, <1>4

\* Reading a manifest or a list of artifacts, one table after the other.
LEMMA ReadingHolds ==
    ASSUME CatalogHolds, ClientHolds(client),
           \/ ListPublishedArtifacts \/ ListArtifacts \/ ListAttachments
           \/ \E i \in Image, n \in Name : GetVersionManifest(i, n)
    PROVE  ClientHolds(client')
<1>1. CatalogTypeOK /\ VersionsBelong /\ client \in ClientRecord /\ {client.v, client.fixed} \subseteq versions \cup {None}
  BY DEF CatalogHolds, ClientHolds
<1> DEFINE c == client
<1>2. c.at \in {"artifacts", "attachments"} =>
          /\ c.v \in versions /\ Home[c.v] = c.image /\ c.v \in Version
          /\ c.fixed # None => c.v = c.fixed
          /\ c.seen = "published" => state[c.v] = "published"
          /\ c.seen # "draft" => state[c.v] # "draft"
          /\ c.at # "artifacts" /\ c.seen # "draft" => c.disks = ArtifactsOf(c.v)
          /\ c.metas = {}
  BY <1>1 DEF ClientHolds, ReadsAgree, CatalogTypeOK
<1> HIDE DEF c
<1>3. CASE ListPublishedArtifacts \/ ListArtifacts
  <2>1. /\ c.at = "artifacts"
        /\ \E at \in {"listing", "attachments"} : client' = [c EXCEPT !.at = at, !.disks = ArtifactsOf(c.v)]
    BY <1>3 DEF ListPublishedArtifacts, ListArtifacts, c
  <2>2. PICK at \in {"listing", "attachments"} : client' = [c EXCEPT !.at = at, !.disks = ArtifactsOf(c.v)]
    BY <2>1
  <2>3. client' \in ClientRecord
    BY <1>1, <2>2, ZenonT(60) DEF ClientRecord, ClientAt, ArtifactsOf, c
  <2>4. /\ client'.at = at /\ client'.v = c.v /\ client'.seen = c.seen /\ client'.image = c.image
        /\ client'.fixed = c.fixed /\ client'.metas = c.metas /\ client'.disks = ArtifactsOf(c.v)
    BY <1>1, <2>2 DEF ClientRecord, c
  <2> QED BY <1>1, <1>2, <2>1, <2>3, <2>4 DEF ClientHolds, ReferencesHold, ReadsAgree, FilesExist, DocumentsAgree, c
<1>4. CASE ListAttachments
  <2> DEFINE metas == AttachmentsOf(c.v, c.disks)
  <2>1. c.at = "attachments" /\ client' = [c EXCEPT !.at = "manifest", !.metas = metas]
    BY <1>4 DEF ListAttachments, c
  <2>2. metas \subseteq c.disks /\ c.disks \subseteq Artifact
    BY <1>1 DEF AttachmentsOf, ClientRecord, c
  <2>3. c.seen # "draft" => metas = {a \in Artifact : content[c.v].meta[a] # None}
    <3>1. \A a \in Artifact : content[c.v].meta[a] # None => content[c.v].disk[a] # None
      BY <1>1, <1>2, <2>1 DEF VersionsBelong
    <3> QED BY <1>2, <2>1, <3>1 DEF AttachmentsOf, ArtifactsOf
  <2> HIDE DEF metas
  <2>4. client' \in ClientRecord
    BY <1>1, <2>1, <2>2, ZenonT(60) DEF ClientRecord, ClientAt, c
  <2>5. /\ client'.at = "manifest" /\ client'.v = c.v /\ client'.seen = c.seen /\ client'.image = c.image
        /\ client'.fixed = c.fixed /\ client'.metas = metas /\ client'.disks = c.disks
    BY <1>1, <2>1 DEF ClientRecord, c
  <2> QED BY <1>1, <1>2, <2>1, <2>2, <2>3, <2>4, <2>5
          DEF ClientHolds, ReferencesHold, ReadsAgree, FilesExist, DocumentsAgree, c
<1>5. ASSUME NEW i \in Image, NEW n \in Name, GetVersionManifest(i, n) PROVE ClientHolds(client')
  <2>1. PICK v \in Versions(i, n) :
          client' = [Idle EXCEPT !.at = "artifacts", !.want = "manifest", !.image = i, !.v = v, !.seen = state[v]]
    BY <1>5 DEF GetVersionManifest
  <2>2. v \in versions /\ Home[v] = i /\ v \in Version /\ state[v] \in {"draft", "publishing", "published"}
    BY <1>1 DEF Versions, CatalogTypeOK
  <2>3. client' \in ClientRecord
    BY <2>1, <2>2 DEF Idle, ClientRecord, ClientAt
  <2>4. /\ client'.at = "artifacts" /\ client'.v = v /\ client'.seen = state[v] /\ client'.image = i
        /\ client'.fixed = None /\ client'.metas = {} /\ client'.disks = {}
    BY <2>1 DEF Idle
  <2> QED BY <2>2, <2>3, <2>4 DEF ClientHolds, ReferencesHold, ReadsAgree, FilesExist, DocumentsAgree
<1> QED BY <1>3, <1>4, <1>5

-----------------------------------------------------------------------------
(* Simple Streams and downloads.                                            *)

\* A row of the document is a row of a published version.
LEMMA ServedRows ==
    ASSUME CatalogHolds, NEW row \in served
    PROVE  /\ row[1] \in Version /\ row[1] \in versions /\ state[row[1]] = "published"
           /\ row = <<row[1], row[2]>> /\ row[2].artifact \in Artifact
           /\ row[2] = [artifact |-> row[2].artifact, disk |-> content[row[1]].disk[row[2].artifact],
                        meta |-> content[row[1]].meta[row[2].artifact]]
           /\ row[2].disk \in Blob /\ row[2].meta \in Blob
           /\ row[2].disk = content[row[1]].disk[row[2].artifact]
           /\ row[2].meta = content[row[1]].meta[row[2].artifact]
<1>1. CatalogTypeOK /\ RowsAreServed /\ FrozenIsTrusted
  BY DEF CatalogHolds
<1>2. row[1] \in Version /\ row = <<row[1], row[2]>> /\ state[row[1]] = "published"
      /\ content[row[1]] \in Manifests /\ row[2] \in RowsOf(content[row[1]])
  BY <1>1 DEF CatalogTypeOK, RowsAreServed
<1> QED BY <1>1, <1>2, RowsOfContent DEF FrozenIsTrusted

\* Reading the index, the rows, and the aliases of one image after the other.
LEMMA MirrorHolds ==
    ASSUME CatalogHolds, ClientHolds(client), FetchIndex \/ ListProjectionRows \/ ReadAliases
    PROVE  ClientHolds(client')
<1>1. CatalogTypeOK /\ client \in ClientRecord /\ {client.v, client.fixed} \subseteq versions \cup {None}
      /\ client.metas \subseteq client.disks
  BY DEF CatalogHolds, ClientHolds
<1>2. CASE FetchIndex
  <2> DEFINE document == IF Duplicated(served) THEN {} ELSE {<<row, {}>> : row \in served}
  <2>1. client' = [Idle EXCEPT !.at = "index", !.follows = TRUE, !.due = Eligible, !.document = document]
    BY <1>2 DEF FetchIndex
  <2>2. document \in SUBSET (served \X SUBSET Name) /\ Eligible \in SUBSET (Version \X Artifact)
    BY DEF Eligible
  <2> HIDE DEF document
  <2>3. client' \in ClientRecord
    BY <2>1, <2>2 DEF Idle, ClientRecord, ClientAt
  <2>4. /\ client'.at = "index" /\ client'.v = None /\ client'.fixed = None
        /\ client'.metas = {} /\ client'.disks = {}
    BY <2>1 DEF Idle
  <2> QED BY <2>3, <2>4 DEF ClientHolds, ReferencesHold, ReadsAgree, FilesExist, DocumentsAgree
<1>3. CASE ListProjectionRows
  <2> DEFINE todo == IF Duplicated(served) THEN {} ELSE Batches(served)
  <2>1. /\ client.at = "index"
        /\ client' = [client EXCEPT !.at = "aliases", !.document = {}, !.todo = todo]
    BY <1>3 DEF ListProjectionRows
  <2>2. todo \in SUBSET SUBSET served
    BY DEF Batches
  <2>3. \A b, d \in todo : \A x \in b, y \in d : Home[x[1]] = Home[y[1]] <=> b = d
    <3> SUFFICES ASSUME NEW b \in Batches(served), NEW d \in Batches(served), NEW x \in b, NEW y \in d
                 PROVE  Home[x[1]] = Home[y[1]] <=> b = d
      OBVIOUS
    <3>1. b = {z \in served : Home[z[1]] = Home[x[1]]} /\ d = {z \in served : Home[z[1]] = Home[y[1]]}
      BY DEF Batches
    <3>2. y \in served
      BY DEF Batches
    <3> QED BY <3>1, <3>2
  <2> HIDE DEF todo
  <2>4. client' \in ClientRecord
    BY <1>1, <2>1, <2>2, ZenonT(60) DEF ClientRecord, ClientAt
  <2>5. /\ client'.at = "aliases" /\ client'.todo = todo /\ client'.document = {} /\ client'.v = client.v
        /\ client'.fixed = client.fixed /\ client'.metas = client.metas /\ client'.disks = client.disks
    BY <1>1, <2>1 DEF ClientRecord
  <2>6. client.metas = {}
    BY <2>1 DEF ClientHolds, ReadsAgree
  <2> QED BY <1>1, <2>3, <2>4, <2>5, <2>6 DEF ClientHolds, ReferencesHold, ReadsAgree, FilesExist, DocumentsAgree
<1>4. CASE ReadAliases
  <2>1. client.at = "aliases" /\ client.metas = {} /\ DocumentsAgree(client)
    BY <1>4 DEF ReadAliases, ClientHolds, ReadsAgree
  <2>2. CASE client' = [client EXCEPT !.at = "document"]
    <3>1. client' \in ClientRecord
      BY <1>1, <2>2 DEF ClientRecord, ClientAt
    <3>2. /\ client'.at = "document" /\ client'.todo = client.todo /\ client'.document = client.document
          /\ client'.v = client.v /\ client'.fixed = client.fixed
          /\ client'.metas = client.metas /\ client'.disks = client.disks
      BY <1>1, <2>2 DEF ClientRecord
    <3> QED BY <1>1, <2>1, <3>1, <3>2 DEF ClientHolds, ReferencesHold, ReadsAgree, FilesExist, DocumentsAgree
  <2>3. ASSUME NEW batch \in client.todo,
               client' = [client EXCEPT
                   !.todo = @ \ {batch},
                   !.document = @ \cup
                      {<<row, productAliases(row[1], ListAliases(Home[row[1]]))>> : row \in batch}]
        PROVE  ClientHolds(client')
    <3> DEFINE new == {<<row, productAliases(row[1], ListAliases(Home[row[1]]))>> : row \in batch}
               todo == client.todo \ {batch}
               document == client.document \cup new
    <3>1. client' = [client EXCEPT !.todo = todo, !.document = document]
      BY <1>1, <2>3 DEF ClientRecord
    <3>2. batch \subseteq served /\ client.todo \in SUBSET SUBSET served
          /\ client.document \in SUBSET (served \X SUBSET Name)
      BY <1>1 DEF ClientRecord
    <3>3. \A row \in batch : productAliases(row[1], ListAliases(Home[row[1]])) \subseteq Name
      <4> TAKE row \in batch
      <4>1. NameOf[row[1]] \in Name
        BY <3>2, ServedRows, NamesAssumption
      <4> QED BY <4>1 DEF productAliases
    <3>4. \A x \in new : x = <<x[1], x[2]>> /\ x[1] \in batch /\ x[2] \subseteq Name
                         /\ x[2] = productAliases(x[1][1], ListAliases(Home[x[1][1]]))
      BY <3>3
    <3>5. document \in SUBSET (served \X SUBSET Name)
      BY <3>2, <3>4
    <3>6. \A b, d \in todo : \A x \in b, y \in d : Home[x[1]] = Home[y[1]] <=> b = d
      BY <2>1 DEF DocumentsAgree
    <3>7. \A b \in todo : \A x \in b, y \in document : Home[x[1]] # Home[y[1][1]]
      <4> SUFFICES ASSUME NEW b \in todo, NEW x \in b, NEW y \in document PROVE Home[x[1]] # Home[y[1][1]]
        OBVIOUS
      <4>1. CASE y \in client.document
        BY <2>1, <4>1 DEF DocumentsAgree
      <4>2. CASE y \in new
        <5>1. y[1] \in batch /\ b # batch /\ b \in client.todo
          BY <3>4, <4>2
        <5> QED BY <2>1, <5>1 DEF DocumentsAgree
      <4> QED BY <4>1, <4>2
    <3>8. ASSUME NEW x \in document, NEW y \in document, NEW n \in x[2] \cap y[2], Home[x[1][1]] = Home[y[1][1]]
          PROVE  x[1][1] = y[1][1] \/ n \in {NameOf[x[1][1]], NameOf[y[1][1]]}
      <4>1. CASE x \in client.document /\ y \in client.document
        BY <2>1, <3>8, <4>1 DEF DocumentsAgree
      <4>2. CASE x \in client.document /\ y \in new
        BY <2>1, <3>4, <3>8, <4>2 DEF DocumentsAgree
      <4>3. CASE x \in new /\ y \in client.document
        BY <2>1, <3>4, <3>8, <4>3 DEF DocumentsAgree
      <4>4. CASE x \in new /\ y \in new
        <5> DEFINE i == Home[x[1][1]]
        <5>1. n \in {NameOf[x[1][1]]} \/ <<n, x[1][1]>> \in ListAliases(i)
          BY <3>4, <4>4 DEF productAliases
        <5>2. n \in {NameOf[y[1][1]]} \/ <<n, y[1][1]>> \in ListAliases(i)
          BY <3>4, <3>8, <4>4 DEF productAliases
        <5>3. \A m, v : <<m, v>> \in ListAliases(i) => v = alias[i][m]
          BY DEF ListAliases
        <5> QED BY <5>1, <5>2, <5>3
      <4> QED BY <4>1, <4>2, <4>3, <4>4
    <3> HIDE DEF todo, document
    <3>9. client' \in ClientRecord
      <4>1. todo \in SUBSET SUBSET served
        BY <3>2 DEF todo
      <4> QED BY <1>1, <3>1, <3>5, <4>1, ZenonT(60) DEF ClientRecord
    <3>10. /\ client'.at = "aliases" /\ client'.todo = todo /\ client'.document = document
           /\ client'.v = client.v /\ client'.fixed = client.fixed
           /\ client'.metas = client.metas /\ client'.disks = client.disks
      BY <1>1, <2>1, <3>1 DEF ClientRecord
    <3> QED BY <1>1, <2>1, <3>6, <3>7, <3>8, <3>9, <3>10
            DEF ClientHolds, ReferencesHold, ReadsAgree, FilesExist, DocumentsAgree
  <2> QED BY <1>4, <2>2, <2>3 DEF ReadAliases
<1> QED BY <1>2, <1>3, <1>4

\* Downloading what was listed: the file is found, and is the blob that was listed.
LEMMA DownloadsHold ==
    ASSUME CatalogHolds, ClientHolds(client),
           DownloadFromManifest \/ DownloadFromMirror \/ FindFile \/ OpenBlob
    PROVE  ClientHolds(client')
<1>1. CatalogTypeOK /\ VersionsBelong /\ FrozenIsTrusted /\ client \in ClientRecord
      /\ {client.v, client.fixed} \subseteq versions \cup {None} /\ client.metas \subseteq client.disks
      /\ client.disks \subseteq Artifact
  BY DEF CatalogHolds, ClientHolds, ClientRecord
<1>2. ASSUME NEW v \in Version, NEW a \in Artifact, NEW is \in {"disk", "meta"}, NEW blob \in Blob,
             state[v] = "published",
             blob = IF is = "disk" THEN content[v].disk[a] ELSE content[v].meta[a],
             Follow(v, a, is, blob)
      PROVE  ClientHolds(client')
  <2> DEFINE f == [v |-> v, a |-> a, is |-> is, blob |-> blob]
  <2>1. client' = [Idle EXCEPT !.at = "file", !.follows = TRUE, !.file = f]
    BY <1>2 DEF Follow
  <2>2. f \in File /\ f.v = v /\ f.a = a /\ f.is = is /\ f.blob = blob /\ blob # None
    BY <1>2, NamesAssumption DEF File
  <2> HIDE DEF f
  <2>3. client' \in ClientRecord
    BY <2>1, <2>2 DEF Idle, ClientRecord, ClientAt
  <2>4. /\ client'.at = "file" /\ client'.file = f /\ client'.v = None /\ client'.fixed = None
        /\ client'.metas = {} /\ client'.disks = {}
    BY <2>1 DEF Idle
  <2> QED BY <1>2, <2>2, <2>3, <2>4 DEF ClientHolds, ReferencesHold, ReadsAgree, FilesExist, DocumentsAgree
<1>3. \A v \in Version, a \in Artifact :
         content[v].disk[a] \in Blob \cup {None} /\ content[v].meta[a] \in Blob \cup {None}
  BY <1>1 DEF CatalogTypeOK, Manifests, Cited
<1>4. CASE DownloadFromManifest
  <2>1. /\ client.v \in Version /\ state[client.v] = "published"
        /\ client.disks = ArtifactsOf(client.v)
        /\ client.metas \subseteq {a \in Artifact : content[client.v].meta[a] # None}
    BY <1>1, <1>4 DEF DownloadFromManifest, ClientHolds, ReadsAgree, CatalogTypeOK
  <2>2. ASSUME NEW a \in client.disks, Follow(client.v, a, "disk", content[client.v].disk[a])
        PROVE  ClientHolds(client')
    <3>1. a \in Artifact /\ content[client.v].disk[a] \in Blob
      BY <1>1, <1>3, <2>1 DEF ArtifactsOf
    <3> QED BY <1>2, <2>1, <2>2, <3>1
  <2>3. ASSUME NEW a \in client.metas, Follow(client.v, a, "meta", content[client.v].meta[a])
        PROVE  ClientHolds(client')
    <3>1. a \in Artifact /\ content[client.v].meta[a] \in Blob
      BY <1>1, <1>3, <2>1
    <3> QED BY <1>2, <2>1, <2>3, <3>1
  <2> QED BY <1>4, <2>2, <2>3 DEF DownloadFromManifest
<1>5. CASE DownloadFromMirror
  <2>1. PICK x \in client.document :
          \/ Follow(x[1][1], x[1][2].artifact, "disk", x[1][2].disk)
          \/ Follow(x[1][1], x[1][2].artifact, "meta", x[1][2].meta)
    BY <1>5 DEF DownloadFromMirror
  <2>2. x[1] \in served
    BY <1>1 DEF ClientRecord
  <2> QED BY <1>2, <2>1, <2>2, ServedRows
<1> DEFINE f == client.file
<1>6. client.at \in {"file", "open", "bytes"} =>
         /\ f \in File /\ f.v \in Version /\ f.a \in Artifact /\ f.is \in {"disk", "meta"}
         /\ f.blob # None /\ f.v \in versions /\ state[f.v] = "published"
         /\ f.blob = IF f.is = "disk" THEN content[f.v].disk[f.a] ELSE content[f.v].meta[f.a]
         /\ f.blob \in Blob /\ f.blob \in verified
  <2> SUFFICES ASSUME client.at \in {"file", "open", "bytes"}
               PROVE  /\ f \in File /\ f.v \in Version /\ f.a \in Artifact /\ f.is \in {"disk", "meta"}
                      /\ f.blob # None /\ f.v \in versions /\ state[f.v] = "published"
                      /\ f.blob = IF f.is = "disk" THEN content[f.v].disk[f.a] ELSE content[f.v].meta[f.a]
                      /\ f.blob \in Blob /\ f.blob \in verified
    OBVIOUS
  <2>1. /\ f \in File /\ f.blob # None /\ state[f.v] = "published"
        /\ f.blob = IF f.is = "disk" THEN content[f.v].disk[f.a] ELSE content[f.v].meta[f.a]
    BY DEF ClientHolds, FilesExist
  <2>2. f.v \in Version /\ f.a \in Artifact /\ f.is \in {"disk", "meta"}
    BY <2>1 DEF File
  <2>3. f.v \in versions /\ {content[f.v].disk[f.a], content[f.v].meta[f.a]} \subseteq verified \cup {None}
    BY <1>1, <2>1, <2>2 DEF FrozenIsTrusted
  <2>4. f.blob \in Blob
    BY <1>3, <2>1, <2>2
  <2> QED BY <2>1, <2>2, <2>3, <2>4
<1>7. CASE FindFile
  <2> DEFINE i == Home[f.v]
             n == NameOf[f.v]
             found == IF f.is = "disk" THEN PublishedArtifacts(i, n, f.a) ELSE PublishedAttachments(i, n, f.a)
  <2>1. client.at = "file"
    BY <1>7 DEF FindFile
  <2>2. f.v \in ExactVersions(i, n)
    BY <1>6, <2>1 DEF ExactVersions, Versions, Published
  <2>3. ExactVersions(i, n) = {f.v}
    BY <1>1, <2>2, ExactVersionIsUnique
  <2>4. f.v \in found
    <3>1. content[f.v].disk[f.a] # None
      BY <1>1, <1>6, <2>1 DEF VersionsBelong
    <3>2. f.v \in PublishedArtifacts(i, n, f.a)
      BY <1>6, <2>1, <2>2, <3>1 DEF PublishedArtifacts, ArtifactsOf
    <3>3. f.is # "disk" => f.v \in PublishedAttachments(i, n, f.a)
      BY <1>6, <2>1, <3>2 DEF PublishedAttachments, AttachmentsOf
    <3> QED BY <3>2, <3>3
  <2>5. found \subseteq {f.v}
    BY <2>3 DEF PublishedArtifacts, PublishedAttachments
  <2>6. Opens(f.v)
    BY <1>7, <2>4, <2>5 DEF FindFile
  <2>7. client' = [client EXCEPT !.at = "open", !.opened = f.blob]
    BY <1>6, <2>1, <2>6 DEF Opens
  <2>8. client' \in ClientRecord
    BY <1>1, <1>6, <2>1, <2>7, ZenonT(60) DEF ClientRecord, ClientAt
  <2>9. /\ client'.at = "open" /\ client'.opened = f.blob /\ client'.file = f /\ client'.v = client.v
        /\ client'.fixed = client.fixed /\ client'.metas = client.metas /\ client'.disks = client.disks
    BY <1>1, <2>7 DEF ClientRecord
  <2>10. client.metas = {}
    BY <2>1 DEF ClientHolds, ReadsAgree
  <2> QED BY <1>1, <1>6, <2>1, <2>8, <2>9, <2>10
          DEF ClientHolds, ReferencesHold, ReadsAgree, FilesExist, DocumentsAgree
<1>8. CASE OpenBlob
  <2>1. client.at = "open" /\ client.opened = f.blob /\ client.metas = {}
    BY <1>8 DEF OpenBlob, ClientHolds, FilesExist, ReadsAgree
  <2>2. client' = [client EXCEPT !.at = "bytes"]
    BY <1>6, <1>8, <2>1 DEF OpenBlob
  <2>3. client' \in ClientRecord
    BY <1>1, <2>2 DEF ClientRecord, ClientAt
  <2>4. /\ client'.at = "bytes" /\ client'.opened = f.blob /\ client'.file = f /\ client'.v = client.v
        /\ client'.fixed = client.fixed /\ client'.metas = client.metas /\ client'.disks = client.disks
    BY <1>1, <2>1, <2>2 DEF ClientRecord
  <2> QED BY <1>1, <1>6, <2>1, <2>3, <2>4
          DEF ClientHolds, ReferencesHold, ReadsAgree, FilesExist, DocumentsAgree
<1> QED BY <1>4, <1>5, <1>7, <1>8

\* Every step of a client keeps what it knows.
LEMMA ClientsKnow ==
    ASSUME CatalogHolds, ClientHolds(client), [Next]_vars
    PROVE  ClientHolds(client)'
<1>1. CASE UNCHANGED client
  BY <1>1, CatalogStays, StepsAreCatalogSteps, ClientsAreUndisturbed
<1>2. CASE Client /\ UNCHANGED catalog
  <2>1. CASE Leave
    <3>1. client' = Idle
      BY <2>1 DEF Leave
    <3> QED BY <1>2, <3>1, IdleHolds, ClientsOnlyRead
  <2>2. CASE ~Leave
    <3>1. ClientHolds(client')
      BY <1>2, <2>2, BrowsingHolds, ResolvingHolds, ReadingHolds, MirrorHolds, DownloadsHold DEF Client
    <3> QED BY <1>2, <3>1, ClientsOnlyRead
  <2> QED BY <2>1, <2>2
<1> QED BY <1>1, <1>2, StepsAreCatalogSteps

\* Without two artifacts of one name, no two rows get one either.
LEMMA RowsAreNamedApart ==
    ASSUME CatalogHolds, NamesDoNotCollide
    PROVE  ~Duplicated(served)
<1> SUFFICES ASSUME NEW x \in served, NEW y \in served, productName(x) = productName(y)
             PROVE  x = y
  BY DEF Duplicated
<1>1. /\ Home[x[1]] = Home[y[1]] /\ NameOf[x[1]] = NameOf[y[1]]
      /\ incusArchitecture(Architecture[x[2].artifact]) = incusArchitecture(Architecture[y[2].artifact])
      /\ Variant[x[2].artifact] = Variant[y[2].artifact]
  BY DEF productName
<1>2. x[1] = y[1]
  BY <1>1, ServedRows, NamesAreUnique
<1>3. x[2].artifact = y[2].artifact
  BY <1>1, ServedRows DEF NamesDoNotCollide
<1>4. x[2] = y[2]
  <2> DEFINE Row(v, a) == [artifact |-> a, disk |-> content[v].disk[a], meta |-> content[v].meta[a]]
  <2>1. x[2] = Row(x[1], x[2].artifact) /\ y[2] = Row(y[1], y[2].artifact)
    BY ServedRows
  <2> HIDE DEF Row
  <2> QED BY <1>2, <1>3, <2>1
<1> QED BY <1>2, <1>4, ServedRows

\* What is due when the index is fetched is in it, and stays in what is read after it.
LEMMA DueStaysListed ==
    ASSUME CatalogHolds, ClientHolds(client), NamesDoNotCollide, DueIsListed(client), [Next]_vars
    PROVE  DueIsListed(client)'
<1>1. Grows /\ client \in ClientRecord
  BY CatalogStays, StepsAreCatalogSteps DEF ClientHolds
<1>2. CASE UNCHANGED client
  BY <1>1, <1>2 DEF DueIsListed, Grows
<1>3. ASSUME client'.at \notin {"index", "aliases", "document"} PROVE DueIsListed(client)'
  BY <1>3 DEF DueIsListed
<1>4. CASE FetchIndex
  <2>1. /\ served' = served /\ client'.due = Eligible
        /\ client'.document = {<<row, {}>> : row \in served}
    BY <1>4, RowsAreNamedApart DEF FetchIndex, Reads, catalog, rvars, Idle
  <2>2. ASSUME NEW va \in Eligible
        PROVE  \E row \in served : /\ row[1] = va[1] /\ row[2].artifact = va[2]
                                   /\ \E x \in client'.document : x[1] = row
    <3>1. /\ va[1] \in Version /\ va[2] \in Artifact /\ state[va[1]] = "published"
          /\ content[va[1]].disk[va[2]] # None /\ content[va[1]].meta[va[2]] # None
      BY DEF Eligible
    <3>2. content[va[1]] \in Manifests /\ RowsAreServed
      BY <3>1 DEF CatalogHolds, CatalogTypeOK
    <3>3. PICK r \in RowsOf(content[va[1]]) : r.artifact = va[2]
      BY <3>1, <3>2, RowsOfContent
    <3>4. <<va[1], r>> \in served
      BY <3>1, <3>2 DEF RowsAreServed
    <3>5. <<<<va[1], r>>, {}>> \in client'.document
      BY <2>1, <3>4
    <3> QED BY <3>3, <3>4, <3>5
  <2> QED BY <2>1, <2>2 DEF DueIsListed
<1>5. CASE ListProjectionRows
  <2>1. /\ client.at = "index" /\ served' = served /\ client'.at = "aliases" /\ client'.due = client.due
        /\ client'.todo = Batches(served)
    BY <1>1, <1>5, RowsAreNamedApart DEF ListProjectionRows, Reads, catalog, rvars, ClientRecord
  <2>2. ASSUME NEW row \in served PROVE \E b \in Batches(served) : row \in b
    <3> DEFINE b == {x \in served : Home[x[1]] = Home[row[1]]}
    <3>1. b \in Batches(served) /\ row \in b
      BY DEF Batches
    <3> QED BY <3>1
  <2> QED BY <2>1, <2>2 DEF DueIsListed
<1>6. CASE ReadAliases
  <2>1. client.at = "aliases" /\ served' = served
    BY <1>6 DEF ReadAliases, Reads, catalog, rvars
  <2>2. CASE client.todo = {} /\ client' = [client EXCEPT !.at = "document"]
    <3>1. client'.at = "document" /\ client'.document = client.document /\ client'.due = client.due
      BY <1>1, <2>2 DEF ClientRecord
    <3> QED BY <2>1, <2>2, <3>1 DEF DueIsListed
  <2>3. ASSUME NEW batch \in client.todo,
               client' = [client EXCEPT
                   !.todo = @ \ {batch},
                   !.document = @ \cup
                      {<<row, productAliases(row[1], ListAliases(Home[row[1]]))>> : row \in batch}]
        PROVE  DueIsListed(client)'
    <3>1. /\ client'.at = "aliases" /\ client'.due = client.due /\ client'.todo = client.todo \ {batch}
          /\ client'.document = client.document \cup
                {<<row, productAliases(row[1], ListAliases(Home[row[1]]))>> : row \in batch}
      BY <1>1, <2>1, <2>3 DEF ClientRecord
    <3>2. ASSUME NEW row \in served,
                 (\E x \in client.document : x[1] = row) \/ \E b \in client.todo : row \in b
          PROVE  (\E x \in client'.document : x[1] = row) \/ \E b \in client'.todo : row \in b
      <4>1. CASE row \in batch
        <5>1. <<row, productAliases(row[1], ListAliases(Home[row[1]]))>> \in client'.document
          BY <3>1, <4>1
        <5> QED BY <5>1
      <4>2. CASE row \notin batch
        BY <3>1, <3>2, <4>2
      <4> QED BY <4>1, <4>2
    <3> QED BY <2>1, <3>1, <3>2 DEF DueIsListed
  <2> QED BY <1>6, <2>2, <2>3 DEF ReadAliases
<1>7. CASE Client /\ ~FetchIndex /\ ~ListProjectionRows /\ ~ReadAliases
  <2> DEFINE Elsewhere == client'.at \notin {"index", "aliases", "document"}
  <2>1. ASSUME NotFound PROVE Elsewhere
    BY <2>1 DEF NotFound, Idle
  <2>2. ASSUME NEW i, NEW n, NEW follows, Ask(i, n, follows) PROVE Elsewhere
    BY <2>2 DEF Ask, Idle
  <2>3. ASSUME NEW v, NEW a, NEW is, NEW blob, Follow(v, a, is, blob) PROVE Elsewhere
    BY <2>3 DEF Follow, Idle
  <2>4. ASSUME NEW v, Resolved(v) \/ Opens(v) PROVE Elsewhere
    BY <1>1, <2>4 DEF Resolved, Opens, ClientRecord
  <2>5. CASE ListImages \/ FindPublicImage \/ ListVersions \/ LookUpAlias \/ ResolveExact \/ ResolveAlias
    <3> HIDE DEF Elsewhere
    <3>1. ASSUME NEW at \in {"versions", "alias"}, client' = [client EXCEPT !.at = at] PROVE Elsewhere
      BY <1>1, <3>1 DEF Elsewhere, ClientRecord
    <3>2. ASSUME NEW i, client' = [Idle EXCEPT !.at = "image", !.follows = TRUE, !.image = i] PROVE Elsewhere
      BY <3>2 DEF Elsewhere, Idle
    <3>3. Elsewhere
      BY <2>1, <2>2, <2>4, <2>5, <3>1, <3>2 DEF ListImages, FindPublicImage, ListVersions, LookUpAlias, ResolveExact,
         ResolveAlias
    <3> QED BY <1>3, <3>3 DEF Elsewhere
  <2>6. CASE DownloadFromManifest \/ DownloadFromMirror \/ FindFile
    <3> HIDE DEF Elsewhere
    <3>1. Elsewhere
      BY <2>1, <2>3, <2>4, <2>6 DEF DownloadFromManifest, DownloadFromMirror, FindFile
    <3> QED BY <1>3, <3>1 DEF Elsewhere
  <2>7. CASE OpenBlob
    <3>1. Elsewhere
      BY <1>1, <2>1, <2>7 DEF OpenBlob, ClientRecord
    <3> QED BY <1>3, <3>1
  <2>8. CASE ListPublishedArtifacts \/ ListArtifacts \/ ListAttachments \/ Leave
    <3>1. CASE Leave
      BY <1>3, <3>1 DEF Leave, Idle
    <3>2. CASE ~Leave
      <4>1. client'.at \in {"listing", "attachments", "manifest"}
        BY <1>1, <2>8, <3>2 DEF ListPublishedArtifacts, ListArtifacts, ListAttachments, ClientRecord
      <4> QED BY <1>3, <4>1
    <3> QED BY <3>1, <3>2
  <2>9. ASSUME NEW i \in Image, NEW n \in Name, ResolveManifest(i, n) \/ GetVersionManifest(i, n)
        PROVE  DueIsListed(client)'
    <3>1. Elsewhere
      BY <2>2, <2>9, ZenonT(60) DEF ResolveManifest, GetVersionManifest, Idle
    <3> QED BY <1>3, <3>1
  <2> HIDE DEF Elsewhere
  <2> QED BY <1>7, <2>5, <2>6, <2>7, <2>8, <2>9 DEF Client
<1> QED BY <1>2, <1>4, <1>5, <1>6, <1>7, StepsAreCatalogSteps

-----------------------------------------------------------------------------
LEMMA InductiveInit == Init => Inductive
<1> SUFFICES ASSUME Init PROVE Inductive
  OBVIOUS
<1>1. ClientHolds(client)
  BY IdleHolds DEF Init
<1>2. CatalogTypeOK
  BY DEF Init, CatalogInit, RInit, CatalogTypeOK, Manifests, Cited
<1>3. RowsAreServed /\ VersionsBelong /\ FrozenIsTrusted /\ AliasesArePublished
  BY NamesAssumption DEF Init, CatalogInit, RInit, RowsAreServed, VersionsBelong, FrozenIsTrusted, AliasesArePublished
<1>4. DueIsListed(client)
  BY IdleHolds DEF Init, DueIsListed
<1> QED BY <1>1, <1>2, <1>3, <1>4 DEF Inductive, TypeOK, ClientHolds

LEMMA InductiveNext == Inductive /\ [Next]_vars => Inductive'
<1> SUFFICES ASSUME Inductive, [Next]_vars PROVE Inductive'
  OBVIOUS
<1>1. CatalogHolds /\ ClientHolds(client)
  BY DEF Inductive, TypeOK, CatalogHolds, ClientHolds
<1>2. CatalogHolds' /\ ClientHolds(client)'
  BY <1>1, CatalogStays, StepsAreCatalogSteps, ClientsKnow
<1>3. NamesDoNotCollide => DueIsListed(client)'
  BY <1>1, DueStaysListed DEF Inductive
<1>4. NamesDoNotCollide' = NamesDoNotCollide
  BY DEF NamesDoNotCollide, incusArchitecture
<1> QED BY <1>2, <1>3, <1>4 DEF Inductive, TypeOK, CatalogHolds, ClientHolds

\* The inductive strengthening holds of every reachable state.
THEOREM InductiveHolds == Spec => []Inductive
<1>1. Inductive /\ [Next]_vars => Inductive'
  BY InductiveNext
<1> QED BY InductiveInit, <1>1, PTL DEF Spec

\* Rows and the record of a client keep their types.
THEOREM TypeCorrect == Spec => []TypeOK
<1>1. Inductive => TypeOK
  BY DEF Inductive
<1> QED BY InductiveHolds, <1>1, PTL

\* A manifest that is read in several statements is the whole frozen manifest.
THEOREM ManifestsAreComplete == Spec => []ResolvedIsComplete
<1>1. Inductive => ResolvedIsComplete
  BY DEF Inductive, ReadsAgree, ResolvedIsComplete, ArtifactsOf
<1> QED BY InductiveHolds, <1>1, PTL

\* The name of a published version resolves to it, whatever aliases are called.
THEOREM ExactReferencesStayStable == Spec => []ExactReferencesAreStable
<1>1. Inductive => ExactReferencesAreStable
  BY DEF Inductive, ReadsAgree, ExactReferencesAreStable
<1> QED BY InductiveHolds, <1>1, PTL

\* What the server lists is found, and is the blob that was listed.
THEOREM ListedIsServed == Spec => []WhatIsListedIsServed
<1>1. Inductive => WhatIsListedIsServed
  BY DEF Inductive, ReferencesHold, FilesExist, WhatIsListedIsServed
<1> QED BY InductiveHolds, <1>1, PTL

\* Every artifact that is due appears in the mirror, unless two artifacts share a name.
THEOREM EligibleArtifactsDoAppear == NamesDoNotCollide /\ Spec => []EligibleArtifactsAppear
<1>1. ASSUME NamesDoNotCollide PROVE Spec => []EligibleArtifactsAppear
  <2>1. Inductive => EligibleArtifactsAppear
    <3> SUFFICES ASSUME Inductive, client.at \in {"index", "document"}, NEW va \in client.due
                 PROVE  \E x \in client.document : x[1][1] = va[1] /\ x[1][2].artifact = va[2]
      BY DEF EligibleArtifactsAppear
    <3>1. DueIsListed(client)
      BY <1>1 DEF Inductive
    <3> QED BY <3>1 DEF DueIsListed
  <2> QED BY InductiveHolds, <2>1, PTL
<1> QED BY <1>1

\* In one document an alias names one version, however aliases move meanwhile.
THEOREM AliasesNameOneVersion == Spec => []OneVersionPerAlias
<1>1. Inductive => OneVersionPerAlias
  BY DEF Inductive, DocumentsAgree, OneVersionPerAlias
<1> QED BY InductiveHolds, <1>1, PTL

\* A range of a blob of any size is answered exactly.
THEOREM RangesStayExact == Spec => []RangesAreExact
<1>1. RangesAreExact
  BY AnswersAreExact, SizesAssumption DEF RangesAreExact, ExactSizes
<1> QED BY <1>1, PTL
=============================================================================
