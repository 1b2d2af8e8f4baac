--------------------------- MODULE PublishedCatalog ---------------------------
(***************************************************************************)
(* A client that finds its way through the public catalog while publishers *)
(* change it: by image, version and manifest, or by the Simple Streams     *)
(* documents, down to the bytes of a blob.                                 *)
(*                                                                         *)
(* An answer is built from several statements without a transaction: each  *)
(* is an action, and the record of the client keeps what was read.  One    *)
(* client is enough, for clients change nothing.                           *)
(***************************************************************************)
EXTENDS CatalogRows, ByteRanges

CONSTANTS
    DiskBlob,  \* bound on the blobs declared as disks
    MetaBlob   \* bound on the blobs declared as metadata

VARIABLE client

vars == <<catalog, client>>

ClientAt == {"idle", "image", "versions", "exact", "alias", "artifacts", "attachments",
             "manifest", "listing", "index", "aliases", "document", "file", "open", "bytes", "missing"}
File == [v : Version, a : Artifact, is : {"disk", "meta"}, blob : Blob \cup {None}]
Idle == [at |-> "idle", follows |-> FALSE, want |-> None, seen |-> None, image |-> None, name |-> None, fixed |-> None,
         v |-> None, disks |-> {}, metas |-> {}, due |-> {}, todo |-> {}, document |-> {},
         file |-> None, opened |-> None]

Eligible ==
    {va \in Version \X Artifact :
        /\ state[va[1]] = "published"
        /\ content[va[1]].disk[va[2]] # None
        /\ content[va[1]].meta[va[2]] # None}

ClientRecord ==
    [at : ClientAt, follows : BOOLEAN, want : {"manifest", "artifacts", None},
     seen : {"draft", "publishing", "published", None},
     image : Image \cup {None}, name : Name \cup {None},
     fixed : Version \cup {None}, v : Version \cup {None},
     disks : SUBSET Artifact, metas : SUBSET Artifact, due : SUBSET (Version \X Artifact),
     todo : SUBSET SUBSET served, document : SUBSET (served \X SUBSET Name),
     file : File \cup {None}, opened : Blob \cup {None}]

TypeOK ==
    /\ CatalogTypeOK
    /\ client \in ClientRecord
    /\ {client.v, client.fixed} \subseteq versions \cup {None}
    /\ client.metas \subseteq client.disks

Init == CatalogInit /\ client = Idle

-----------------------------------------------------------------------------
(* Publishers.                                                              *)

NewImage(i) == CreateImage(i) /\ UNCHANGED client
NewDraft(v) == CreateDraftVersion(v) /\ UNCHANGED client
MoveAlias(i, n, name) == PutAlias(i, n, name) /\ UNCHANGED client
RemoveAlias(i, n) == DeleteAlias(i, n) /\ UNCHANGED client

(* Artifacts and attachments come and go; an attachment has an artifact.     *)
EditManifest(v) ==
    /\ v \in versions
    /\ Revise(v)
    /\ \A a \in Artifact :
          /\ content'[v].disk[a] = None => content'[v].meta[a] = None
          /\ content'[v].disk[a] \in DiskBlob \cup {None}
          /\ content'[v].meta[a] \in MetaBlob \cup {None}
    /\ UNCHANGED <<images, versions, alias, client>>

Rest == UNCHANGED <<images, versions, alias, client>>
TrustBlob(b) == Verify(b) /\ Rest
PublishVersion(v) == Freeze(v) /\ Rest
FinishPublishing(v) == Release(v) /\ Rest

-----------------------------------------------------------------------------
(* Images, versions and manifests.                                          *)

Reads == UNCHANGED catalog

ListImages ==
    /\ client = Idle
    /\ \E i \in PublicImages :
          client' = [Idle EXCEPT !.at = "image", !.follows = TRUE, !.image = i]
    /\ Reads

\* A reference the server gave must exist; one that was guessed need not.
NotFound == client' = [Idle EXCEPT !.at = IF client.follows THEN "missing" ELSE "idle"]

(* ListVersions looks for the public image, and then for its versions.       *)
FindPublicImage ==
    /\ client.at = "image"
    /\ \/ client.image \in PublicImages /\ client' = [client EXCEPT !.at = "versions"]
       \/ client.image \notin PublicImages /\ NotFound
    /\ Reads

\* The version that holds a name, or will be given it next.
Holder(i, n) == IF ExactVersions(i, n) = {} THEN None ELSE CHOOSE v \in ExactVersions(i, n) : TRUE

\* For the manifest of a reference, or for the artifacts of an exact version.
Ask(i, n, follows) ==
    \E want \in {"manifest", "artifacts"} :
        client' = [Idle EXCEPT !.at = "exact", !.follows = follows, !.want = want,
                               !.image = i, !.name = n, !.fixed = Holder(i, n)]

ListVersions ==
    /\ client.at = "versions"
    /\ \/ \E v \in Published(client.image) : Ask(client.image, NameOf[v], TRUE)
       \/ Published(client.image) = {} /\ NotFound
    /\ Reads

ResolveManifest(i, n) ==
    /\ client = Idle
    /\ Ask(i, n, FALSE)
    /\ Reads

(* GetAlias or ListAliases; the client goes on with the version it names.    *)
LookUpAlias ==
    /\ client = Idle
    /\ \E i \in Image : \E target \in ListAliases(i) : Ask(i, NameOf[target[2]], TRUE)
    /\ Reads

(* An editor reads the manifest of a version in any state.                   *)
GetVersionManifest(i, n) ==
    /\ client = Idle
    /\ \E v \in Versions(i, n) :
          client' = [Idle EXCEPT !.at = "artifacts", !.want = "manifest", !.image = i,
                                 !.v = v, !.seen = state[v]]
    /\ Reads

Resolved(v) == client' = [client EXCEPT !.at = "artifacts", !.v = v, !.seen = "published"]

\* Wrong on purpose: an alias takes precedence.
ResolveExact_AliasFirst ==
    LET found == ExactVersions(client.image, client.name)
        aliased == AliasedVersions(client.image, client.name) IN
    /\ client.at = "exact"
    /\ \/ \E v \in IF aliased # {} THEN aliased ELSE found : Resolved(v)
       \/ aliased \cup found = {} /\ NotFound
    /\ Reads

(* resolvePublishedManifestHeader: an exact version first, then an alias,    *)
(* of which ListPublishedArtifacts does only the first.                      *)
ResolveExact ==
    LET found == ExactVersions(client.image, client.name) IN
    /\ client.at = "exact"
    /\ \/ \E v \in found : Resolved(v)
       \/ found = {} /\ client.want = "manifest" /\ client' = [client EXCEPT !.at = "alias"]
       \/ found = {} /\ client.want = "artifacts" /\ NotFound
    /\ Reads

ResolveAlias ==
    LET found == AliasedVersions(client.image, client.name) IN
    /\ client.at = "alias"
    /\ \/ \E v \in found : Resolved(v)
       \/ found = {} /\ NotFound
    /\ Reads

ListPublishedArtifacts ==
    /\ client.at = "artifacts" /\ client.want = "artifacts"
    /\ client' = [client EXCEPT !.at = "listing", !.disks = ArtifactsOf(client.v)]
    /\ Reads

ListArtifacts ==
    /\ client.at = "artifacts" /\ client.want = "manifest"
    /\ client' = [client EXCEPT !.at = "attachments", !.disks = ArtifactsOf(client.v)]
    /\ Reads

ListAttachments ==
    /\ client.at = "attachments"
    /\ client' = [client EXCEPT !.at = "manifest",
                                !.metas = AttachmentsOf(client.v, client.disks)]
    /\ Reads

-----------------------------------------------------------------------------
(* The Simple Streams documents.                                            *)

\* Wrong on purpose: every architecture is called the same.
incusArchitecture_Constant(arch) == "amd64"

incusArchitecture(arch) ==
    CASE arch = "x86_64" -> "amd64"
      [] arch = "aarch64" -> "arm64"
      [] OTHER -> arch

\* The operating system is not part of the name.
productName(row) ==
    <<Home[row[1]], NameOf[row[1]],
      incusArchitecture(Architecture[row[2].artifact]), Variant[row[2].artifact]>>

\* One duplicate makes the whole document an error.
Duplicated(rows) == \E x, y \in rows : x # y /\ productName(x) = productName(y)

(* The index is built from one read of the rows; a client goes on to the     *)
(* products it names.                                                        *)
FetchIndex ==
    /\ client = Idle
    /\ client' = [Idle EXCEPT
          !.at = "index", !.follows = TRUE, !.due = Eligible,
          !.document = IF Duplicated(served) THEN {} ELSE {<<row, {}>> : row \in served}]
    /\ Reads

\* Wrong on purpose: the aliases of an image are read again for every row.
Batches_PerRow(rows) == {{x} : x \in rows}

\* The rows that share one reading of the aliases of their image.
Batches(rows) == {{x \in rows : Home[x[1]] = Home[y[1]]} : y \in rows}

(* BuildProductFile reads the rows, and then the aliases of each image.      *)
ListProjectionRows ==
    /\ client.at = "index"
    /\ client' = [client EXCEPT !.at = "aliases", !.document = {},
                                !.todo = IF Duplicated(served) THEN {} ELSE Batches(served)]
    /\ Reads

\* Wrong on purpose: the rows are listed, not the names in them.
productAliases_Rows(v, aliases) == {NameOf[v]} \cup {x \in aliases : x[2] = v}

\* productAliases: a version is also listed under its own name.
productAliases(v, aliases) == {NameOf[v]} \cup {n \in Name : <<n, v>> \in aliases}

ReadAliases ==
    /\ client.at = "aliases"
    /\ \/ \E batch \in client.todo :
             client' = [client EXCEPT
                 !.todo = @ \ {batch},
                 !.document = @ \cup
                    {<<row, productAliases(row[1], ListAliases(Home[row[1]]))>> : row \in batch}]
       \/ client.todo = {} /\ client' = [client EXCEPT !.at = "document"]
    /\ Reads

-----------------------------------------------------------------------------
(* Downloads, by a path a manifest or a document holds.                     *)

Follow(v, a, is, blob) ==
    client' = [Idle EXCEPT !.at = "file", !.follows = TRUE,
                           !.file = [v |-> v, a |-> a, is |-> is, blob |-> blob]]

DownloadFromManifest ==
    /\ client.at \in {"manifest", "listing"} /\ client.seen = "published"
    /\ \/ \E a \in client.disks : Follow(client.v, a, "disk", content[client.v].disk[a])
       \/ \E a \in client.metas : Follow(client.v, a, "meta", content[client.v].meta[a])
    /\ Reads

DownloadFromMirror ==
    /\ client.at = "document"
    /\ \E x \in client.document : LET v == x[1][1]
                                      row == x[1][2] IN
          \/ Follow(v, row.artifact, "disk", row.disk)
          \/ Follow(v, row.artifact, "meta", row.meta)
    /\ Reads

Opens(v) ==
    client' = [client EXCEPT !.at = "open", !.opened =
        IF client.file.is = "disk" THEN content[v].disk[client.file.a]
                                   ELSE content[v].meta[client.file.a]]

FindFile ==
    /\ client.at = "file"
    /\ LET f == client.file
           i == Home[f.v]
           n == NameOf[f.v]
           found == IF f.is = "disk" THEN PublishedArtifacts(i, n, f.a)
                                     ELSE PublishedAttachments(i, n, f.a) IN
       \/ \E v \in found : Opens(v)
       \/ found = {} /\ NotFound
    /\ Reads

(* cas.OpenBlob: only trusted blobs are served.                              *)
OpenBlob ==
    /\ client.at = "open"
    /\ \/ client.opened \in verified /\ client' = [client EXCEPT !.at = "bytes"]
       \/ client.opened \notin verified /\ NotFound
    /\ Reads

(* The client has its answer, or goes away.                                  *)
Leave == client # Idle /\ client' = Idle /\ Reads

-----------------------------------------------------------------------------
Publisher ==
    \/ \E i \in Image : NewImage(i)
    \/ \E v \in Version : NewDraft(v) \/ EditManifest(v) \/ PublishVersion(v) \/ FinishPublishing(v)
    \/ \E b \in Blob : TrustBlob(b)
    \/ \E i \in Image, n \in Name : RemoveAlias(i, n) \/ \E m \in Name : MoveAlias(i, n, m)

Client ==
    \/ ListImages \/ FindPublicImage \/ ListVersions
    \/ \E i \in Image, n \in Name : ResolveManifest(i, n) \/ GetVersionManifest(i, n)
    \/ LookUpAlias \/ ResolveExact \/ ResolveAlias
    \/ ListPublishedArtifacts \/ ListArtifacts \/ ListAttachments
    \/ FetchIndex \/ ListProjectionRows \/ ReadAliases
    \/ DownloadFromManifest \/ DownloadFromMirror \/ FindFile \/ OpenBlob
    \/ Leave

Next == Publisher \/ Client

Spec == Init /\ [][Next]_vars

-----------------------------------------------------------------------------
\* A manifest of a version that is no draft is the whole frozen manifest of that version,
\* although its header, artifacts and attachments are read one after the other while
\* publishers write, and a public one is of a published version of that image; so is the
\* list of artifacts (ResolveManifest, GetVersionManifest, ListPublishedArtifacts).
ResolvedIsComplete ==
    client.at \in {"manifest", "listing"} /\ client.seen # "draft" =>
        /\ client.seen = "published" => state[client.v] = "published"
        /\ Home[client.v] = client.image
        /\ client.disks = {a \in Artifact : content[client.v].disk[a] # None}
        /\ client.at = "manifest" =>
              client.metas = {a \in Artifact : content[client.v].meta[a] # None}

\* consume-images.md:98: a version reference is stable.  A name that a published version
\* bears resolves to that version, whatever alias bears the same name and wherever it
\* moves (resolvePublishedManifestHeader).
ExactReferencesAreStable ==
    client.at \in {"manifest", "listing"} /\ client.fixed # None => client.v = client.fixed

\* What the server lists it serves: an image, version, manifest or document that was just
\* read leads to no reference that is not found, and every file listed is the blob listed,
\* whatever publishers do between the reads of a client.
WhatIsListedIsServed ==
    /\ client.at # "missing"
    /\ client.at = "bytes" => client.opened = client.file.blob

\* consume-images.md:81: a qcow2 artifact of a published version with its metadata appears
\* in Simple Streams: in the index a client fetches, and in the products it fetches then.
EligibleArtifactsAppear ==
    client.at \in {"index", "document"} =>
        \A va \in client.due : \E x \in client.document :
            x[1][1] = va[1] /\ x[1][2].artifact = va[2]

\* In one product document an alias names one version, even if it moves while the document
\* is built: the aliases of an image are read once.  A name that versions bear as their own
\* is listed under those as well (productAliases).
OneVersionPerAlias ==
    client.at = "document" =>
        \A x, y \in client.document : \A n \in x[2] \cap y[2] :
            Home[x[1][1]] = Home[y[1][1]] =>
                \/ x[1][1] = y[1][1]
                \/ n \in {NameOf[x[1][1]], NameOf[y[1][1]]}

\* A client that reads a blob may ask for any range of it, with any validators, and the
\* blob may have any size: the answer is exactly what the header means (AnswersExactly;
\* parseBlobRangeHeader, getObjectOptions and SetRange agree at every edge).
RangesAreExact == client.at = "bytes" => ExactSizes = ObjectSize

-----------------------------------------------------------------------------
(* Why the properties hold: an inductive strengthening of them.             *)

\* The rows that are served are those of the frozen content of the published versions.
RowsAreServed ==
    /\ \A x \in served : state[x[1]] = "published" /\ x[2] \in RowsOf(content[x[1]])
    /\ \A v \in Version : state[v] = "published" => \A row \in RowsOf(content[v]) : <<v, row>> \in served

\* A version is of an image that stays, and has metadata only next to an artifact.
VersionsBelong ==
    /\ \A v \in versions : Home[v] \in images
    /\ \A v \in Version, a \in Artifact :
          /\ v \notin versions => content[v].disk[a] = None
          /\ content[v].disk[a] = None => content[v].meta[a] = None

\* What is frozen exists, and all that it cites is trusted.
FrozenIsTrusted ==
    \A v \in Version : state[v] # "draft" =>
        /\ v \in versions
        /\ \A a \in Artifact : {content[v].disk[a], content[v].meta[a]} \subseteq verified \cup {None}

AliasesArePublished ==
    \A i \in Image, n \in Name : alias[i][n] # None => alias[i][n] \in Published(i)

\* What a client was told of still exists; a guess that names no published version is
\* the only one that goes on to the aliases.
ReferencesHold(c) ==
    /\ c.at \in {"image", "versions"} => c.image \in PublicImages
    /\ c.at = "exact" =>
          /\ c.fixed # None => c.fixed \in ExactVersions(c.image, c.name)
          /\ c.follows => c.fixed # None
    /\ c.at = "alias" => c.fixed = None /\ ~c.follows
    /\ c.at # "missing"

\* What was read of a version that is no draft is what it holds.
ReadsAgree(c) ==
    /\ c.at \in {"artifacts", "attachments", "manifest", "listing"} =>
          /\ c.v \in versions /\ Home[c.v] = c.image
          /\ c.fixed # None => c.v = c.fixed
          /\ c.seen = "published" => state[c.v] = "published"
          /\ c.seen # "draft" => state[c.v] # "draft"
          /\ c.at # "artifacts" /\ c.seen # "draft" => c.disks = ArtifactsOf(c.v)
          /\ c.at = "manifest" /\ c.seen # "draft" =>
                c.metas = {a \in Artifact : content[c.v].meta[a] # None}
    /\ c.at # "manifest" => c.metas = {}

\* A file that was listed is a blob a published version cites.
FilesExist(c) ==
    /\ c.at \in {"file", "open", "bytes"} =>
          LET f == c.file IN
          /\ f \in File /\ f.blob # None
          /\ state[f.v] = "published"
          /\ f.blob = IF f.is = "disk" THEN content[f.v].disk[f.a] ELSE content[f.v].meta[f.a]
    /\ c.at \in {"open", "bytes"} => c.opened = c.file.blob

\* Rows of one image are read with its aliases all at once.
DocumentsAgree(c) ==
    c.at \in {"aliases", "document"} =>
        /\ \A b, d \in c.todo : \A x \in b, y \in d : Home[x[1]] = Home[y[1]] <=> b = d
        /\ \A b \in c.todo : \A x \in b, y \in c.document : Home[x[1]] # Home[y[1][1]]
        /\ \A x, y \in c.document : \A n \in x[2] \cap y[2] :
              Home[x[1][1]] = Home[y[1][1]] =>
                  \/ x[1][1] = y[1][1]
                  \/ n \in {NameOf[x[1][1]], NameOf[y[1][1]]}

\* No two artifacts get one product name; mirror_collides shows what happens if they do.
NamesDoNotCollide ==
    \A a, b \in Artifact :
        /\ incusArchitecture(Architecture[a]) = incusArchitecture(Architecture[b])
        /\ Variant[a] = Variant[b]
        => a = b

\* What was due is in the document, or among the rows its aliases are yet to be read for.
DueIsListed(c) ==
    c.at \in {"index", "aliases", "document"} =>
        \A va \in c.due : \E row \in served :
            /\ row[1] = va[1] /\ row[2].artifact = va[2]
            /\ \/ \E x \in c.document : x[1] = row
               \/ c.at = "aliases" /\ \E b \in c.todo : row \in b

Inductive ==
    /\ TypeOK
    /\ RowsAreServed
    /\ VersionsBelong
    /\ FrozenIsTrusted
    /\ AliasesArePublished
    /\ ReferencesHold(client)
    /\ ReadsAgree(client)
    /\ FilesExist(client)
    /\ DocumentsAgree(client)
    /\ NamesDoNotCollide => DueIsListed(client)
=============================================================================
