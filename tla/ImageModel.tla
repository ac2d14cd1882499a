----------------------------- MODULE ImageModel -----------------------------
(***************************************************************************)
(* What is shown of an image: from the manifest the registry answers to    *)
(* the display model (parseManifest, buildImage, fillIndex, fillManifest,  *)
(* distinctSize, applyHistoryToLayers), and from there to the row of a tag *)
(* (TagSummary) and the image page (buildImagePage).  Pure functions of    *)
(* one answer, but two ways to the same image that must not contradict     *)
(* each other.                                                             *)
(*                                                                         *)
(* A document carries what is behind its digests: a reference to a child   *)
(* the child's document, a config descriptor the config blob, Absent where *)
(* the request fails.  RegistryReads has what happens on the way.  The     *)
(* text of a history entry is its position in the history.                 *)
(***************************************************************************)
EXTENDS Integers, Sequences, FiniteSets, SequencesExt

CONSTANTS
    Absent,
    Error,       \* the error a row or a page shows instead
    Documents,   \* answers of the registry to a tag
    Unusable     \* a digest that isDigest refuses

VARIABLES
    answer,      \* the registry's answer, or Absent
    row, page    \* what a tag row and the image page make of it

imageVars == <<answer, row, page>>

NoDate == 0
SumOf(sizes) == FoldLeft(+, 0, sizes)
Sizes(blobs) == [i \in DOMAIN blobs |-> blobs[i].size]
Values(s) == {s[i] : i \in DOMAIN s}

-----------------------------------------------------------------------------
(* The client: documents to images.                                        *)

\* What a document of unknown type must be, going by what is in it.
KindByShape(doc) ==
    IF doc.manifests # <<>> THEN "index"
    ELSE IF doc.config.digest # "" \/ doc.layers # <<>> THEN "manifest"
    ELSE "unsupported"

\* parseManifest: the document's own type, else the header's; schema 1 is
\* refused, by its type or by its marks.
KindOf(doc) ==
    LET type == IF doc.type = "" THEN doc.header ELSE doc.type
    IN  IF type = "schema1" \/ doc.schema1 THEN "unsupported"
        ELSE IF type \in {"index", "manifest"} THEN type
        ELSE KindByShape(doc)

\* The n-th of a set of numbers.
Nth(S, n) == CHOOSE k \in S : Cardinality({j \in S : j <= k}) = n

Steps(history) == {k \in DOMAIN history : ~history[k]}

\* Mutant: steps are paired from the front, whether they fit or not.
WithHistoryAnyway(history, layers) ==
    LET steps == Steps(history)
    IN  [i \in DOMAIN layers |->
           [layers[i] EXCEPT !.command = IF i <= Cardinality(steps) THEN Nth(steps, i) ELSE 0]]

\* applyHistoryToLayers: the steps that made a layer, one by one, if they are
\* as many as the layers.  0 is no command.
WithHistory(history, layers) ==
    LET steps == Steps(history)
    IN  IF Cardinality(steps) # Len(layers) THEN layers
        ELSE [i \in DOMAIN layers |-> [layers[i] EXCEPT !.command = Nth(steps, i)]]

NoBlob == [digest |-> "", size |-> 0]
Bare(kind) == [isIndex |-> kind = "index", configRef |-> NoBlob, config |-> Absent,
               layers |-> <<>>, total |-> 0, children |-> <<>>]

\* fillManifest: the config is only detail, and may be missing.
FromManifest(doc) ==
    LET layers == [i \in DOMAIN doc.layers |->
                     [digest |-> doc.layers[i].digest, size |-> doc.layers[i].size, command |-> 0]]
        config == IF doc.config.digest = "" THEN Absent ELSE doc.config.blob
    IN  [Bare("manifest") EXCEPT
            !.configRef = [digest |-> doc.config.digest, size |-> doc.config.size],
            !.config = config,
            !.layers = IF config = Absent THEN layers ELSE WithHistory(config.history, layers),
            !.total = doc.config.size + SumOf(Sizes(doc.layers))]

\* resolveChild: nested indexes are not expanded.  A child that cannot be had
\* or read is Absent.
Resolved(ref) ==
    IF ref.answer = Absent THEN Absent
    ELSE CASE KindOf(ref.answer) = "manifest" -> FromManifest(ref.answer)
           [] KindOf(ref.answer) = "index" -> Bare("index")
           [] OTHER -> Absent

\* fillIndex: the children that can be addressed, each resolved on its own.
Children(doc) ==
    LET usable == {i \in DOMAIN doc.manifests : doc.manifests[i].digest # Unusable}
        refs == [n \in 1 .. Cardinality(usable) |-> doc.manifests[Nth(usable, n)]]
        Size(image) == IF image = Absent THEN 0 ELSE image.total
    IN  [i \in DOMAIN refs |-> [digest |-> refs[i].digest, size |-> refs[i].size,
                                platform |-> refs[i].platform, resolved |-> Resolved(refs[i]),
                                sizeTotal |-> Size(Resolved(refs[i]))]]

Blobs(image) == <<image.configRef>> \o image.layers

\* Mutant: a blob is counted once per platform.
CountAlways(sum, blob) == [sum EXCEPT !.total = @ + blob.size]

\* distinctSize's add: a blob without a digest always counts, another once.
Count(sum, blob) ==
    IF blob.digest \in sum.counted \ {""} THEN sum
    ELSE [total |-> sum.total + blob.size, counted |-> sum.counted \cup {blob.digest}]

CountChild(sum, child) ==
    IF child.resolved = Absent THEN sum ELSE FoldLeft(Count, sum, Blobs(child.resolved))

DistinctSize(children) == FoldLeft(CountChild, [total |-> 0, counted |-> {}], children).total

FromIndex(doc) == [Bare("index") EXCEPT !.children = Children(doc),
                                        !.total = DistinctSize(Children(doc))]

\* Image with its children resolved; Absent is ErrUnsupported.
Image(doc) == CASE KindOf(doc) = "index" -> FromIndex(doc)
                [] KindOf(doc) = "manifest" -> FromManifest(doc)
                [] KindOf(doc) = "unsupported" -> Absent

-----------------------------------------------------------------------------
(* TagSummary.                                                             *)

\* The first child whose config has a date lends it to the index.
ChildDates(image) ==
    SelectSeq([i \in DOMAIN image.children |->
                 LET child == image.children[i].resolved
                 IN  IF child = Absent THEN NoDate
                     ELSE IF child.config = Absent THEN NoDate ELSE child.config.created],
              LAMBDA d : d # NoDate)

Created(image) == IF image.config # Absent THEN image.config.created
                  ELSE IF ChildDates(image) = <<>> THEN NoDate ELSE Head(ChildDates(image))

\* What the config says where the index names no platform.
ConfigPlatform(config) == [os |-> config.os, arch |-> config.arch, variant |-> config.variant,
                           version |-> ""]

ChildPlatforms(child) ==
    IF child.platform # Absent THEN {child.platform}
    ELSE IF child.resolved = Absent THEN {}
    ELSE IF child.resolved.config = Absent THEN {} ELSE {ConfigPlatform(child.resolved.config)}

\* isAttestationPlatform does not care about case.
Unknowns == {"unknown", "Unknown"}
Placeholder(p) == p.os \in Unknowns /\ p.arch \in Unknowns
NoPlatform(p) == p.os = "" /\ p.arch = ""

\* Mutant: placeholders of attestations are platforms, too.
DedupedAll(platforms) == {p \in platforms : ~NoPlatform(p)}

\* dedupePlatforms; the order it gives them is left out.
Deduped(platforms) == {p \in platforms : ~NoPlatform(p) /\ ~Placeholder(p)}

TagSummary(image) ==
    [size |-> image.total,
     created |-> Created(image),
     platforms |-> Deduped(IF image.isIndex
                           THEN UNION {ChildPlatforms(c) : c \in Values(image.children)}
                           ELSE IF image.config = Absent THEN {} ELSE {ConfigPlatform(image.config)})]

-----------------------------------------------------------------------------
(* The image page.                                                         *)

\* Platform.String; the variant may be empty.
String(p) == IF NoPlatform(p) THEN <<"unknown">> ELSE <<p.os, p.arch, p.variant>>

\* The page's own test for attestations does care.
HalfUnknown(p) == p.os = "unknown" \/ p.arch = "unknown"

\* Mutant: attestations may stand in for the image.
UnfitLaxly(child) == \/ child.resolved = Absent
                     \/ child.platform = Absent
                     \/ child.resolved.layers = <<>>

\* What representativeChild skips.
Unfit(child) == \/ child.resolved = Absent
                \/ child.platform = Absent
                \/ child.resolved.layers = <<>>
                \/ HalfUnknown(child.platform)

\* representativeChild: linux/amd64, else the first that will do.
RepresentativeChild(image) ==
    LET first == SelectInSeq(image.children, LAMBDA c : ~Unfit(c))
        best == SelectInSeq(image.children, LAMBDA c : /\ ~Unfit(c)
                                                       /\ c.platform.os = "linux"
                                                       /\ c.platform.arch = "amd64")
    IN  IF best # 0 THEN image.children[best]
        ELSE IF first # 0 THEN image.children[first]
        ELSE Absent

\* layerViews: the three largest, the earlier first among equals, if they hold
\* more than a twentieth of all bytes.
Hot(layers) ==
    LET Larger(i, j) == \/ layers[i].size > layers[j].size
                        \/ layers[i].size = layers[j].size /\ i < j
    IN  {j \in DOMAIN layers : /\ Cardinality({i \in DOMAIN layers : Larger(i, j)}) < 3
                               /\ layers[j].size * 20 > SumOf(Sizes(layers))}

ChildView(child) == [platform |-> IF child.platform = Absent THEN <<"unknown">> ELSE String(child.platform),
                     size |-> IF child.sizeTotal = 0 THEN child.size ELSE child.sizeTotal,
                     attestation |-> child.platform # Absent /\ HalfUnknown(child.platform)]

\* buildImagePage.
ImagePage(image) ==
    LET stand == IF image.layers = <<>> /\ image.isIndex THEN RepresentativeChild(image) ELSE Absent
        layers == IF stand = Absent THEN image.layers ELSE stand.resolved.layers
        views == [i \in DOMAIN image.children |-> ChildView(image.children[i])]
        named == {v.platform : v \in {w \in Values(views) : ~w.attestation}}
    IN  [size |-> image.total,
         created |-> Created(image),
         config |-> IF image.config = Absent /\ stand # Absent THEN stand.resolved.config ELSE image.config,
         layers |-> layers,
         bytes |-> SumOf(Sizes(layers)),
         from |-> IF stand = Absent THEN Absent ELSE String(stand.platform),
         hot |-> Hot(layers),
         children |-> views,
         platforms |-> IF named # {} THEN named
                       ELSE IF image.config # Absent /\ image.config.os # ""
                            THEN {String(ConfigPlatform(image.config))} ELSE {}]
-----------------------------------------------------------------------------
(* What is taken for granted of documents.                                 *)

\* Lists are lists, and sizes are numbers.
Readable(doc) == /\ doc.layers \in Seq(Values(doc.layers))
                 /\ doc.manifests \in Seq(Values(doc.manifests))
                 /\ doc.config.size \in Int
                 /\ \A layer \in Values(doc.layers) : layer.size \in Int
                 /\ doc.config.blob # Absent =>
                        doc.config.blob.history \in Seq(BOOLEAN)

ASSUME DocumentsAssumption ==
    \A doc \in Documents : /\ Readable(doc)
                           /\ \A ref \in Values(doc.manifests) :
                                  ref.answer # Absent => Readable(ref.answer)

\* Absent is none of what it stands for.
ASSUME AbsentAssumption ==
    /\ Absent \notin Documents
    /\ \A doc \in Documents : Absent \notin Values(Children(doc))

-----------------------------------------------------------------------------
(* One tag, shown in both ways.                                            *)

ImageInit == answer = Absent /\ row = Absent /\ page = Absent

\* The registry has an answer for a tag.
Answer == /\ answer = Absent
          /\ answer' \in Documents
          /\ UNCHANGED <<row, page>>

Outcome(image, view) == IF image = Absent THEN Error ELSE view

\* handleTagRow: a manifest it cannot read is the row's error.
HandleTagRow == /\ answer # Absent /\ row = Absent
                /\ row' = Outcome(Image(answer), TagSummary(Image(answer)))
                /\ UNCHANGED <<answer, page>>

\* handleImage: the page, or a 415.
HandleImage == /\ answer # Absent /\ page = Absent
               /\ page' = Outcome(Image(answer), ImagePage(Image(answer)))
               /\ UNCHANGED <<answer, row>>

Leave == /\ row # Absent /\ page # Absent
         /\ answer' = Absent /\ row' = Absent /\ page' = Absent

ImageNext == Answer \/ HandleTagRow \/ HandleImage \/ Leave

ImageSpec == ImageInit /\ [][ImageNext]_imageVars

-----------------------------------------------------------------------------
Views == {Absent, Error}
OfIndex == answer # Absent /\ KindOf(answer) = "index"

\* Each <<child, blob>> of the children that could be read.
BlobPlaces(children) ==
    UNION {{i} \X DOMAIN Blobs(children[i].resolved) :
           i \in {k \in DOMAIN children : children[k].resolved # Absent}}

\* The size of an index is that of the union of its children's blobs: each
\* digest counts once, with a size some child declares for it, and a blob that
\* has no digest counts wherever it is (client.go:762-772, 821-843).
IndexSizeIsUnion ==
    page \notin Views /\ OfIndex =>
        LET children == Children(answer)
            places == BlobPlaces(children)
            Blob(p) == Blobs(children[p[1]].resolved)[p[2]]
            named == {Blob(p).digest : p \in places} \ {""}
            Claimed(d) == {Blob(p).size : p \in {q \in places : Blob(q).digest = d}}
            loose == MapThenSumSet(LAMBDA p : Blob(p).size, {p \in places : Blob(p).digest = ""})
        IN  page.size - loose \in MapThenSumSet(LAMBDA d : Min(Claimed(d)), named)
                                  .. MapThenSumSet(LAMBDA d : Max(Claimed(d)), named)

\* The commands on the page are exactly the steps that made layers in the
\* history of the config on the page, in their order, or there are none: never
\* of another platform, never shifted (manifest.go:297-315, handlers.go:382-398).
CommandsFitHistory ==
    page \notin Views =>
        LET commands == [i \in DOMAIN page.layers |-> page.layers[i].command]
            steps == IF page.config = Absent THEN {}
                     ELSE {i \in DOMAIN page.config.history : ~page.config.history[i]}
        IN  \/ Values(commands) \subseteq {0}
            \/ /\ Values(commands) = steps
               /\ \A i, j \in DOMAIN commands : i < j => commands[i] < commands[j]

\* The layers that stand in for an index are those of a platform of the page,
\* linux/amd64 if it can be shown, and never of an attestation; and none of the
\* highlighted ones is smaller than one that is not (handlers.go:382-398,
\* 464-473, 512-530).
LayersOfAPlatform ==
    page \notin Views =>
        /\ page.from # Absent => page.from \in page.platforms
        /\ \A i \in DOMAIN page.layers, j \in page.hot :
               page.layers[i].size > page.layers[j].size => i \in page.hot
        /\ OfIndex =>
               LET named == {c.platform : c \in Values(Children(answer))} \ {Absent}
                   amd64 == {p \in named : p.os = "linux" /\ p.arch = "amd64"}
               IN  \A c \in Values(Children(answer)) :
                       c.platform \in amd64 /\ c.resolved # Absent =>
                           c.resolved.layers = <<>> \/ page.from \in {String(p) : p \in amd64}

\* Row and page name the same platforms, as far as the index says what they
\* are: those it names in full are on both, those of attestations on neither,
\* unless they spell it so that only the row's test knows them
\* (client.go:576-597, 1156-1195; handlers.go:407-440).
PlatformsAgree ==
    row \notin Views /\ page \notin Views /\ OfIndex =>
        LET listed == {String(p) : p \in row.platforms}
            named == {c.platform : c \in Values(Children(answer))} \ {Absent}
            full == {p \in named : ~HalfUnknown(p) /\ ~Placeholder(p) /\ ~NoPlatform(p)}
        IN  /\ {String(p) : p \in full} \subseteq listed \cap page.platforms
            /\ \A p \in named : Placeholder(p) /\ HalfUnknown(p)
                                => String(p) \notin listed \cup page.platforms
            /\ named = full /\ Cardinality(page.platforms) > 0
                => page.platforms \ {<<"unknown">>} \subseteq listed
=============================================================================
