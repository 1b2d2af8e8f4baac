----------------------------- MODULE CatalogRows -----------------------------
(***************************************************************************)
(* Images, versions and aliases, and the statements of                     *)
(* internal/store/postgres/catalog that clients' reads are made of.        *)
(*                                                                         *)
(* What a version holds and how it is published is ReleaseLifecycle, which *)
(* PublishFlow implements (KeepsReleasePromise); here versions belong to   *)
(* images and have names.  An artifact is a qcow2 artifact, identified by  *)
(* its labels as its unique index does.                                    *)
(***************************************************************************)
EXTENDS ReleaseLifecycle

CONSTANTS
    Image,         \* image namespaces
    Name,          \* names of versions and of aliases
    Home,          \* the image of each version
    NameOf,        \* the name of each version
    Architecture,  \* the architecture each artifact declares
    Variant        \* the variant each artifact declares

ASSUME NamesAreUnique ==
    \A v, w \in Version : Home[v] = Home[w] /\ NameOf[v] = NameOf[w] => v = w
ASSUME NamesAssumption ==
    /\ Home \in [Version -> Image] /\ NameOf \in [Version -> Name]
    /\ None \notin Version \cup Artifact \cup Blob \cup Image \cup Name

VARIABLES
    images,    \* the images rows
    versions,  \* the image_versions rows; their state is "state"
    alias      \* the aliases rows: the target of each name of each image

catalog == <<rvars, images, versions, alias>>

CatalogTypeOK ==
    /\ state \in [Version -> {"draft", "publishing", "published"}]
    /\ content \in [Version -> Manifests]
    /\ verified \subseteq Blob
    /\ served \subseteq Version \X [artifact : Artifact, disk : Blob, meta : Blob]
    /\ images \subseteq Image
    /\ versions \subseteq Version
    /\ alias \in [Image -> [Name -> Version \cup {None}]]

CatalogInit ==
    /\ RInit
    /\ images = {}
    /\ versions = {}
    /\ alias = [i \in Image |-> [n \in Name |-> None]]

-----------------------------------------------------------------------------
(* Writes.                                                                  *)

CreateImage(i) ==
    /\ i \notin images
    /\ images' = images \cup {i}
    /\ UNCHANGED <<rvars, versions, alias>>

CreateDraftVersion(v) ==
    /\ Home[v] \in images
    /\ v \notin versions
    /\ versions' = versions \cup {v}
    /\ UNCHANGED <<rvars, images, alias>>

\* The versions target_version selects.
Versions(i, n) == {v \in versions : Home[v] = i /\ NameOf[v] = n}

\* Wrong on purpose: an alias may name a version on its way.
MayBeAliased_Publishing(v) == state[v] # "draft"

\* aliases_guard_write.
MayBeAliased(v) == state[v] = "published"

(* The row is inserted, or moved when the image has an alias of that name.   *)
PutAlias(i, n, name) ==
    \E v \in Versions(i, name) :
        /\ MayBeAliased(v)
        /\ alias' = [alias EXCEPT ![i][n] = v]
        /\ UNCHANGED <<rvars, images, versions>>

DeleteAlias(i, n) ==
    /\ alias[i][n] # None
    /\ alias' = [alias EXCEPT ![i][n] = None]
    /\ UNCHANGED <<rvars, images, versions>>

-----------------------------------------------------------------------------
(* Reads: each is one statement.                                            *)

Published(i) == {v \in versions : Home[v] = i /\ state[v] = "published"}

\* ListImages, and GetImage and getPublicImageID of one image.
PublicImages == {i \in images : Published(i) # {}}

\* Wrong on purpose: any version of that name.
ExactVersions_AnyState(i, n) == Versions(i, n)

\* resolveExactPublishedManifestHeader.
ExactVersions(i, n) == Versions(i, n) \cap Published(i)

\* resolveAliasPublishedManifestHeader.
AliasedVersions(i, n) == {v \in Published(i) : alias[i][n] = v}

\* listArtifacts, and listAttachmentsByArtifact for the artifacts that were found.
ArtifactsOf(v) == {a \in Artifact : content[v].disk[a] # None}
AttachmentsOf(v, found) == {a \in found : content[v].meta[a] # None}

\* Wrong on purpose: the version has to be named by an alias.
PublishedArtifacts_Aliased(i, n, a) ==
    {v \in ExactVersions(i, n) : a \in ArtifactsOf(v) /\ \E m \in Name : alias[i][m] = v}

\* GetPublishedArtifact: the versions its join finds.
PublishedArtifacts(i, n, a) == {v \in ExactVersions(i, n) : a \in ArtifactsOf(v)}

\* GetPublishedAttachment.
PublishedAttachments(i, n, a) ==
    {v \in PublishedArtifacts(i, n, a) : a \in AttachmentsOf(v, {a})}

\* ListAliases, and GetAlias of one name: the aliases of an image and their targets.
ListAliases(i) == {<<n, alias[i][n]>> : n \in {m \in Name : alias[i][m] # None}}
=============================================================================
