# TLA+ models of the dash recovery tree

The repository is a TWRP device tree for the Xiaomi "dash" (MT6991). Two parts of it
have logic. One is a set of host tools that take `vendor_boot` images apart, change the
two ramdisk fragments in them, and put new ones together; an error there is found late,
when the phone does not reach recovery. The other is `prebuilt/a15-aidl/include`, the
keymaster and KeyMint headers the recovery is built against to decrypt user data: message
serialization, version negotiation, owned key material, authorization sets and the
conversions of key parameters are inline code in those headers. Neither part has tests
in the repository. This directory models both, checks the models with TLC on small
instances, and proves the most important results with TLAPS.

Sections: 1 the system, 2 modules, 3 runs, 4 bounds and fairness, 5 proofs,
6 what disagrees with the documentation, 7 what is left out, 8 plan.

## 1. The system

### Parts, state and operations

**vendor_boot v4 images.** Header (page 0), ramdisk section (fragment F0, the
vendor ramdisk, and F1, the recovery ramdisk, one after the other), DTB,
fragment table. Every section begins at a page boundary, so the place of the DTB
and of the table follows from the sizes before them. A table entry holds size,
offset, type and name of a fragment. A fragment is a legacy-LZ4 CPIO ("newc").

**`tools/repack_vendor_boot.py`** reads a template image and a CI image, merges
the two F1 trees (CI's `system/bin` and `system/lib64`, everything else the
template's), compresses the result and assembles an image from the template's
page 0, F0 and DTB. State outside the process: `/tmp/ci_dir`, `/tmp/tp_dir`,
`/tmp/f1_dir`, `/tmp/f1_new.lz4` and the output file, under fixed names, shared
by all runs and removed only by the last lines of `main()`.

**`tools/patch_recovery_adbd_props.py`** turns `ro.secure=1` into `ro.secure=0`
and `ro.debuggable=0` into `ro.debuggable=1` in `prop.default` of one fragment
without unpacking it: it walks the CPIO, finds the two lines, overwrites two
bytes, compresses into a new file, reads that back and publishes a JSON report.
State: the input, output and report files; nothing is ever deleted.

**`tools/prepare_fragments.py`** builds F0 (stock F0, without the stock recovery
and `res/`, with nine CI libraries in `twrp16/` and a `setenv` in `init.rc`) and F1
(F1 of a validated image, with files of a staging tree and the device tree's RC
files over it), and writes `<prefix>.f0.lz4`, `<prefix>.f1.lz4` and
`<prefix>.manifest.json`. **`tools/verify_fragments.py`** looks at the first two.

**`tools/local_repack_vendor_boot.sh`** downloads what is missing and calls
`prepare_fragments.py` and an external repack tool.

**`rootdir/*.rc`** load the touch modules, wait for the touch node and start the
touch bridge in recovery. **`extract-files.sh`** copies stock files whose hash it
checks, **`evidence/verify_tree.py`** checks the tree afterwards.

**`prebuilt/a15-aidl/include`**, the headers the recovery is compiled against:

* *messages* (`android_keymaster_messages.h`, `serializable.h`, `km_version.h`): every request
  and response between a keymaster client and its server, written field by field; which fields
  there are depends on a message version that both sides settle first. State: the version of
  each side, the message under way.
* *memory* (`android_keymaster_utils.h`, `List.h`, `keymaster_utils.h`): blobs of key material
  that wipe themselves, certificate chains, a linked list, results that must be looked at.
  State: who owns which allocation. Every `new` may fail.
* *authorizations* (`authorization_set.h`, `keymaster_tags.h`, `keymint_tags.h`,
  `attestation_record.h`, the AIDL enumerations): sets of tagged parameters, a proxy over two
  sets, the type of each tag in its number and in two lists, records that attest parameters.
* *COSE keys* (`cppcose.h`): maps that are parsed as one of several kinds of keys, extended and
  encoded again.
* *device* (`operation.h`, `rsa_operation.h`, `ecdsa_operation.h`, `operation_table.h`,
  `keymaster_enforcement.h`, `KeyMintUtils.h`, `ErrorCode.h`): operations on keys, the lock state,
  the errors a client sees.

### How the parts meet

There are no calls between the host tools: they meet in files. `repack_vendor_boot.py`
and `prepare_fragments.py` read images that a build, a download or a partition
dump has left, possibly cut short. The manifest of `prepare_fragments.py` names
its two fragments by path, and whoever uses it takes what is there at that
time. Several runs of one tool share `/tmp` or the prefix. So the hard cases are
those of processes on one file system:

* a run dies (signal, `subprocess` timeout, exception) and the next one starts on
  what it left;
* two runs interleave between a check of a path and its use;
* an external program (`lz4`, `cpio`, `find`) fails and its exit code is not looked
  at, or it succeeds and has written something else;
* a file is shorter than its header says;
* sizes that move later sections by one page more or less.

In the headers a client and a server meet in bytes, and may be of different ages; objects meet
in moves, copies and swaps, any of which may run out of memory half way; a key parameter is
written by the type of its tag in one list, read by that in another, and attested by tables of
its own; a token and a lock meet in a time stamp of milliseconds.

### What makes each part correct

| part | properties |
|---|---|
| repack | a delivered image parses back to the fragments that went in and to the DTB from its 64-byte head on (`ImageRoundTrips`); a cut-off template never gives an image with an empty fragment (`NoEmptyFragmentDelivered`); F1 is path by path what the copy, delete and restore loops make of this run's images, whatever was in `/tmp` (`CompletedF1IsMerge`) |
| CPIO parser | the spans it hands out are disjoint and inside the archive (`EntriesDisjoint`); the loop moves on and ends (`Progress`, `ParserTerminates`); it accepts what cpio wrote and never a shortened list (`WholeAccepted`, `NothingLost`) |
| property patch | a report is true of the files it names (`ReportsTruthful`); exactly two lines change (`PreservesRest`); nothing complete is overwritten (`NeverOverwrites`); nothing is patched or claimed twice (`NotPatchedTwice`, `OneReportPerOutput`); seen from outside, files only appear and are finished once (`Publishes`); racing runs do not all fail unless their paths form a circle (`SomeRunReports`) |
| fragments | the two files at a prefix come from one run (`NoMixedPair`); what the verifier passes is one pair with everything on its lists, whole or cut off (`VerifiedIsOnePair`) |
| messages | both sides use one version they know (`VersionsAgree`, `Negotiates`) and get there (`SessionsStart`); what is read is what was written (`RequestsArrive`, `ResponsesArrive`); a cut message is refused (`NoPrefixAccepted`) |
| memory | every allocation has one owner (`OwnedOnce`); freed key bytes are wiped (`FreedIsWiped`); the list is the sequence it promises (`WellLinked`, `ImplementsList`); no unchecked result is lost (`UncheckedIsHeld`) |
| authorizations | a valid set is complete (`ValidIsComplete`); the proxy is its two sets (`ProxyIsConcatenation`); a parameter is read from the member it was written to (`HalReads`); a record says what the key has, of the tags that have a place in it (`AttestationFaithful`) |
| COSE keys | an accepted key stays of its kind (`AcceptedStaysItself`) and has a whole public key (`EcPublicKeyWhole`), as far as its labels have one item each |
| device | old tokens do not open a locked device (`LockInvalidatesTokens`); an operation is the one that was asked for (`OperationMatchesKey`); a confirmation covers all input (`ConfirmationCoversAll`); the client knows the outcome (`ClientKnows`) |

What the repository says of these parts and the code does not do is in section 6.

## 2. Modules

| module | models | used by |
|---|---|---|
| `VendorBoot` | image layout: `align`, `rd`, the image section of `main()` | `RepackVendorBoot` |
| `RepackVendorBoot` | `repack_vendor_boot.py`, several runs | `MCRepack` |
| `FileTrees` | file trees and what `cp`, `rm` and pruning do to them | `RepackVendorBoot`, `PrepareFragments` |
| `NewcParser`, `NewcArchives` | `parse_newc()`; what cpio writes, and what the parser promises of it | `MCNewc`, and through it `MCPatch` |
| `PropPatch` | `patch_properties()` | `Publication`, `PatchAdbdProps` |
| `Publication` | what that tool promises of its files, as an abstract specification | refined by `PatchAdbdProps` |
| `PatchAdbdProps` | `main()` of `patch_recovery_adbd_props.py`, several runs | `MCPatch` |
| `PrepareFragments` | `prepare_fragments.py` and `verify_fragments.py` | `MCPrepare` |
| `KmVersions` | `km_version.h`, message versions | `KmNegotiation`, `KmWire` |
| `KmNegotiation` | the negotiation, with messages as records | refined by `KmSession` |
| `KmWire`, `KmMessages` | `serializable.h`; the fields of every message | `KmSession` |
| `KmSession` | a client and a server, in bytes | `MCSession` |
| `OwnedBlobs` | `TKeymasterBlob`, `CertificateChain` and the heap | `MCObjects` |
| `ListAbstract`, `LinkedList` | what `List.h` promises; its pointers | `MCObjects` |
| `KmResult` | `KmErrorOr` | `MCObjects` |
| `AuthorizationSets` | `AuthorizationSet`, the builder, `AuthProxy` | `MCObjects` |
| `KeyEnums`, `KeyTags`, `KeyParams` | the AIDL enumerations; tags and typed tags; parameters on their way through the HAL and into records | `MCObjects` |
| `CoseKeys` | `CoseKey` and its kinds | `MCObjects` |
| `KmDevice` | operations, locks, errors | `MCObjects` |
| `RepackVendorBootProofs`, `NewcParserProofs`, `PatchAdbdPropsProofs`, `PrepareFragmentsProofs`, `KmNegotiationProofs`, `OwnedMemoryProofs`, `KeyDataProofs`, `KmDeviceProofs` | theorems | |

The `map` of `PROJECT.json` names the source lines of every definition.

**VendorBoot.** An image is a sequence of cells. A cell is a piece of the image
that the tool never divides: the header fields, one piece of a compressed
fragment, the three words of a table entry, its name. What the tool computes is
kept: all alignments, the loop over the table with its stop at the end of the
file, Python's slices (cut off at the end) and slice assignments (which grow the
array when they run past its end). `rd(d)` returns the dictionary of `rd()`;
`AssembleImage(t, f1)` is the byte array of `main()`, put together from `Page0`,
`WithRamdisks`, `WithDtb` and `WithTable`. `DtbFound` is the search for
the FDT magic in the first 256 bytes of the DTB section: the DTB of dash is a container with a
64-byte head (`prebuilt/dash-stock.dtb`), so a magic less than 64 bytes in is refused. The piece
copied starts 64 bytes before the magic (`DtbStart`), which is the section only if the magic is
just there; a magic deeper in the section gives a piece that is shifted by the difference and
reaches into what is behind the section. `IsVendorBoot` says nothing of where the magic is. The
property demands the cells from `DtbStart` on, and run `repack_dtb` shows the case where they are
not the section.
`MkImage` (external) lays an image out as mkbootimg does; the inputs come from it.

**RepackVendorBoot.** One action per stretch of `main()` between two touches of
shared state: `ReadImages`, `UnpackCi`, `UnpackTemplate`, `BuildF1Tree`, `PackF1`,
`OpenOutput` (from here an older output is gone), `WriteImage`, `AssertSize`,
`Cleanup`. `Die` may happen anywhere and leaves `/tmp` as it is. File trees are
functions from paths to contents, so `MergeTree` is a chain of `Only`, `Without` and `Over`
(`FileTrees`) in the order of the code: copy the template, drop bin and lib64, copy CI's, delete
the core binaries, prune binaries the template lacks, restore binaries that are
missing. `uz` and `Packed` return the set of outcomes; with `ToolsFail` these
include what an unnoticed failure leaves, among it the `f1_new.lz4` of an earlier
run that died. `Serial` says whether runs may overlap.

**NewcParser.** The archive is kept at byte offsets: its length, which bytes are
non-zero, and what the 110 bytes at an offset mean as a header. One action per way an
iteration ends: `AcceptEntry`, `AcceptTrailer`, `Reject`; `Finish` is the code behind
the loop. The arithmetic is that of the code. Numeric fields are integers and not
natural numbers, because `int(text, 16)` takes a sign. `NewcArchives` says what a file written by
cpio looks like (`Stored`, external, with the writer's own padding arithmetic) after a cut, zero padding or other bytes behind it.

**PropPatch**, **PatchAdbdProps** and **Publication.** The archive is a sequence of entries with
lines; the connection to bytes is `EntriesDisjoint` of the parser: the two bytes are
written inside the span of `prop.default`, and no other entry shares it. A run is a
record of steps over `fs`, a function from paths to contents. `CheckPaths` is the
early check; `Create` and `OpenReport` are the exclusive opens (`"xb"`, `"x"`), later
and separate; `Compress` may, with an lz4 that `"may_fail"`, leave a partial file or a fragment of
another archive (`Wrong`) although lz4 exits with 0; `Recheck` is magic, `lz4 -t` and the
comparison. Reading a fragment that another run is still writing fails or yields an
archive that is not whole: legacy LZ4 has blocks and may end at one. A start (`Starts`) is
a command line for each run and the files they find. All three paths of all runs are taken from one
set in any combination: an output may be another run's input or report, or the run's own report. A
run may be killed before any step.
`Publication` is the tool seen from outside. Its one variable, `shelf`, says of each path that
there is nothing, a draft, or a finished file. `Begin` puts a draft where nothing was,
`FinishFragment` and `FinishReport` finish a draft, and no action changes a finished file; a report is
finished only when what it says `Holds` and it is `Unrelated` to every other report. `Shelf` in
`PatchAdbdProps` is the refinement mapping: a file that a run is writing is a draft.

**PrepareFragments.** `BuildF0` and `BuildF1` compose the trees; `RemoveF0`,
`RemoveF1`, `WriteF0`, `WriteF1`, `WriteManifest` are the five writes at the prefix in
the order of the code, and `Die` may come between any two or in the middle of a
write. `AddSetenv` puts the line behind every matching stanza, as `str.replace` does,
and not at all if it is there already. When lz4 stops early, cpio gets what it has written so far:
the tree that is unpacked lacks files, and one file of it may be cut off (`Unpacked`, `Beginnings`). The
verifier is three actions that record what they read, so that the property can compare it with the
arguments of the run that wrote it. The verifier looks at names only, so a library or a recovery
that is cut off passes; `VerifiedIsOnePair` says what is true of a pair it has passed.

**KmVersions, KmNegotiation.** A client that knows GetVersion2 sends its maximum; the server
answers with its own and both take the lower one. A server that does not know it answers with an
error and the client falls back to GetVersion. One message is under way at a time, as over the
synchronous channel the headers are made for. What the client does with an error, and what an old
server reports, is outside `src/` and external in the map.

**KmWire, KmMessages, KmSession.** A message is the sequence of bytes that `Serialize` writes into
a buffer of `SerializedSize()` bytes, with the bound check of every append; reading keeps the
position and every check for remaining bytes. The 32-bit sizes are kept with their little-endian
layout; values are small, so that only the low byte is not zero. `Schema` in `KmMessages` lists the
fields of each request and response with the message version from which each is sent. The size of
the buffer does not come from it: the `SerializedSize()` of every message is translated on its own,
term by term as the header adds it up, so that a size that does not fit the fields shows, as it does
for `DeviceLockedRequest`. Where a struct only declares its two methods (`FieldCount`, `DeclaredSize`, external) both
follow the data members. `KmSession` refines `KmNegotiation`
(property `Negotiates`): `NetOf` decodes the bytes on the wire into the records of the abstract module.

**OwnedBlobs, LinkedList, KmResult.** One action per constructor, assignment or method. The heap
says of each address whether it is allocated and whether key bytes are in it. Every allocation may
fail, and fails when no address is left. The list is changed one pointer at a time in the order of
the code, and `LinkedList` implements `ListAbstract`, in which a list is a sequence and an iterator
a position (property `ImplementsList`).

**AuthorizationSets, KeyEnums, KeyTags, KeyParams.** Sets with their error state, all methods of the
builder, the iterator of `AuthProxy` (run past the end when both sets are empty), and the overloads of
`GetTagValue`: a tag with one value, an instance of a repeatable tag, the only instance of a repeatable
enumeration. What was asked to be in a set is in `want`; `loss` tells apart the two ways in which a set
lacks some of it although it says it is valid. `KeyTags` has the numbers of the AIDL
tags, the type in each number, the members that `keymint_tags.h` writes, the types that
`keymaster_tags.h` declares and the member that each overload of `GetTagValue` reads. In `KeyParams` a
client makes parameters by the type in the number, the HAL takes them over and adds its own by the declared type, and
builds an attestation record from them. The three tables of `attestation_record.h` are separate: the members of the struct
by kind, the template by macro, and the EAT claims. The conversion of parameters and the builders of
records are declared in the headers and defined elsewhere; they are external, and what they make of a malformed parameter is left out.

**CoseKeys** takes maps in two orders with every choice of type, algorithm, curve and coordinates and
with a second item under a label or not, parses them as each kind, adds items under any label and
encodes them, with items of one label sorted in any order. **KmDevice** has one client with one token at
a time, locks with and without the password requirement, the factory registered for an algorithm and a
purpose, the class it makes and the purpose written into the constructor of that class (three tables in
three places), operations and confirmation buffers without storage, and the status that every call
returns. The input of `Finish` is buffered as those of `Update` are. `AuthorizeBegin`, the handlers and
the table have no bodies in the headers: the model takes the conditions from the comments and members,
and the map marks them external.

Definitions such as `uzNoRmtree` or `CreateTruncating`, placed before the definition
they resemble, are not used by any specification. They are plausible mistakes; the
project records which property each one breaks.

## 3. Runs

States are distinct states found by TLC.

| run | checks | what it shows |
|---|---|---|
| `repack` (838,988) | `NoEmptyFragmentDelivered`, `ImageRoundTrips`, `CompletedF1IsMerge` | all residues of F0, F1 and DTB modulo a page, the first FDT magic at four places in the DTB section or missing, templates cut at seven lengths, new F1 from one cell to far more than fits; all 4,096 pairs of template and CI trees over three binaries (one of them core), two libraries and another file; and two runs in a row with different CI builds and a kill anywhere. The size assertion after the write is what keeps an overgrown image from being delivered, and `rmtree` at the start of `uz()` makes leftovers harmless as long as runs do not overlap and tools do not fail |
| `patch` (144,997) | `EntriesDisjoint`, `NothingLost`, `WholeAccepted`, `Progress`, `ParserTerminates` | of the parser: all archives of up to two files of 0 or 6 bytes: whole, cut at every byte, padded with zeros, followed by other bytes, and with one of eight damages in one header |
| | `ReportsTruthful`, `NotPatchedTwice`, `OneReportPerOutput`, `NeverOverwrites`, `Publishes`, `PreservesRest`, `SomeRunReports` | of the runs: two of them over five paths in any combination of arguments, killed anywhere, with an lz4 that works or one that may fail or write another archive; and a chain of two patches of every `prop.default` of up to three lines from five texts, duplicates and already patched lines included; second entries of that name; not a regular file; not a whole archive |
| `prepare_reruns` (2,058,374) | `NoMixedPair`, `VerifiedIsOnePair` | two runs over one prefix, unreadable stock, kills in the middle of writes, tools that lose files or cut them off; the verifier at any time no run is active |
| `km_session` (39,944) | `VersionsAgree`, `RequestsArrive`, `ResponsesArrive`, `NoPrefixAccepted`, `Negotiates`, `SessionsStart` | every pair of six keymaster versions with and without GetVersion2; every command but DeviceLocked with no, all, the odd or the even fields filled; errors and failing allocations; every strict prefix of every message |
| `km_objects` (278,062) | the fourteen invariants of the headers' classes, and `ImplementsList` | seven state machines side by side that share nothing; a behaviour works on one of them. Together because they are one library, and each is small |

The other seven runs check one statement of the repository each and end with a
counterexample (section 6).

`SomeRunReports` speaks of the starts where neither lz4 may fail and some run could report if it were
alone, and of the behaviours in which nobody is killed. Two such runs can both fail: if the output of
each is the report of the other, each may find its report taken after its output is written, and both
have done their work for nothing; a run whose report is its own output always does. The property
excepts such circles by name (`Circle`) and asks for a report in all other cases.

`VerifiedIsOnePair` says why the second tool is needed: prepare alone reports success when a
library is missing or lz4 has produced nothing. It does not say more than the verifier can see: a
file of F1 that is not on its list may be missing, and a file on it may be cut off.

## 4. Bounds and fairness

*Layout.* A page of 3 cells has all the alignment cases (full, one over, one short);
header sizes 2 and 3 end inside and at the end of a page. A partition of 21 cells is 7
pages, and fragments of up to 11 cells overrun it. The head of the DTB is one cell and the search
covers four: a magic at 0 is refused, at 1 is where it should be, at 2 and 3 is too deep, and a
section of two or three cells may have none. The theorems `SectionsInOrder`,
`ImageParsesBack` and `DeliveredRoundTrips` cover all other sizes.

*Runs.* Two. The interference in these tools is between one run's check or write and one
other's write; a third run adds repetitions. For the repack tool, the property patcher and the
fragment tools the theorems cover any number.

*Archives.* Two files are the smallest number that lets an entry overlap its successor
and a cut fall between entries; sizes 0 and 6 give no padding and two bytes.
(Header and name lengths add the other residues.) One damaged field at a time.
The theorems cover any number of files of any size.

*Sessions.* Keymaster 1.0, 1.1, 2 and later ones stand for the four message versions; two of these
are reached through two keymaster versions each, so that a mix-up of the two scales shows. Fields
are told apart by their position in the message, and empty ones are next to filled ones in both
orders. A filled blob has two bytes, a filled list of blobs has an empty one in the middle.

*Objects.* Two blobs and two chains over four addresses: enough for a clone that runs out of memory
half way, an assignment between two owners, and an address that is used again. Two lists over
four nodes; three results in three objects (a swap through a third). Two authorization sets of up
to four elements, built by one method of each shape. Two parameters, from the client, from the HAL or one
of each: any tag first, then one of each kind of type, so that repeated ones occur. COSE maps with one additional
item when they are received and one that is added, each a second key identifier, algorithm, curve
or coordinate. Blobs, chains, results and sets, parameters and COSE maps of any
number and size are covered by the theorems. One operation handle: the second `Begin` finds the table full.
Two inputs before `Finish` brings the last. Two milliseconds: a token of before, at and after a lock.

*Lines.* Three lines hold both old lines and a duplicate, a new line or another one; the second patch of
the chain sees what the first has made of them.

*Symmetry.* The two runs of `prepare_reruns` are interchangeable and only invariants
are checked, so `RunSymmetry` is sound. Elsewhere no symmetry is used.

*Deadlock* is checked everywhere. A state in which every run has ended has a stuttering
step of its own (`AllEnded`, `Returned`), so any other stop would be reported.

*Fairness.* `NewcParser` is one thread of straight code: weak fairness of its step says only
that the interpreter goes on. `PatchAdbdProps` has weak fairness of every run's own steps:
the operating system schedules each process. A kill is never required, and never fair. `MCPatch`
states both (`ParserStep`, `RunStep`) for the part a behaviour uses. The steps of a run never
wait for another run, so weak fairness is enough. `KmSession` has weak fairness of the negotiation
as a whole (`HelloFairness`, written out because some step of it is enabled exactly while `Greeting`
holds): the client blocks on its one request and the server answers each. Calls are not fair: a
client need not make any. The other specifications state no
fairness and are checked for safety only.

## 5. Proofs

`tlapm` checks all of them. Nothing is assumed except the named assumptions on constants, which
TLC evaluates for every instance above:

| assumption | says | why the code justifies it |
|---|---|---|
| `LayoutAssumption` | sizes and distances of the format are natural numbers, a page and an entry head are not empty | literals of `repack_vendor_boot.py` |
| `RepackAssumption` | command lines name images of the vendor_boot format (`IsVendorBoot`): two entries, inside the ramdisk section, and a fragment that is there whole decodes; bin and lib64 are different directories, and the core binaries are in bin | mkbootimg writes the images; an image may still be cut short anywhere. The lists are literals of the code |
| `BlobAssumption` | an archive has a length, and headers have the seven fields that `parse_newc()` reads | shape of the constant only |
| `ArchivesAssumption` | an archive marked as cpio's consists of files with readable headers (a known magic, hexadecimal numbers, a NUL behind the name), each at the padded end of the one before, then the trailer; nothing but zeros behind an undamaged one | the newc format; it constrains only what the two properties speak of, and every other byte sequence may be in `Blobs` too |
| `PatchAssumption` | command lines, the files they find and archives are of their types; patching an archive gives one that is in the set | notation of the model: `Cpios` is closed so that the type can be stated |
| `PrepareAssumption` | a stock image has no twrp16/ directory, the recovery binary is on the verifier's list, and `"nobody"` is no run | the directory is made by `prepare_fragments.py`; the list is a literal of `verify_fragments.py` |
| `AddrsAssumption`, `SizesAssumption`, `MaxCertsAssumption` | addresses are finitely many and none is null; sizes and the number of certificates are natural numbers | 64-bit pointers, `size_t` |
| `OutcomesAssumption` | 0, which means "no result", numbers no result | notation of the model |
| `MethodsAssumption` | the methods used are methods of the builder | notation of the model |
| `TagsAssumption` | the tags of parameters are typed tags and not INVALID | both `Authorization` functions take a typed tag |
| `AdditionsAssumption` | an item added to a COSE key has a label of the enumeration and is an integer or a byte string | the types of `add` |
| `DeviceAssumption` | keys are RSA or EC, a curve belongs to an EC key, handlers report codes of `ErrorCode.h` | the two operation factories; the enumeration |

**RepackVendorBootProofs.** *Layout.* `align` returns the smallest multiple not below its argument
(`AlignRoundsUp`), hence `SectionsInOrder`: header, ramdisks, DTB and table never overlap,
for every page size and all sizes. `SetSliceLength` is the reason for the assertion after the write: a
slice assignment keeps the length of the array exactly when the data fits, so an image as long as the
partition is one in which nothing ran past the end. Then each of the seven assignments leaves the
earlier sections alone (`LayersDisjoint`, `AssembledCells`), and `ImageParsesBack` follows: `rd()` of an assembled
image returns the template's F0, the new F1, the types 1 and 2 and the cells from `DTB_HDR` before the first magic on,
wherever in the DTB section that is, for every template of the format whose file reaches to the end of that piece, and every F1.
(If the magic is where it should be, that is the template's DTB, and a file with two table entries always reaches to its end,
since the table is behind it. `DtbInFile` says something only of a template whose magic is too deep and which is cut within the
table: the slice assignment of a piece that is too short shrinks the image, and a table that runs past the end may make up for it, so the
size assertion need not notice.) *Runs.* `DeliveredRoundTrips` (`ImageRoundTrips`) and
`DeliveredFragmentsWhole` (`NoEmptyFragmentDelivered`) hold for any number of runs, overlapping or not, with
failing tools and kills. The invariant `Inv` says what a run has learnt: both images had two entries (`ReadInv`), the magic
was found (`DtbInv`), and the file is what its last writer assembled (`OutInv`). It speaks of
the last writer only: another run may have replaced the image by the time a run prints its path. `MergeIsExpected`: the commands in the order of the code give the
tree that `ExpectedF1` describes path by path. `CompletedIsMerged` (`CompletedF1IsMerge`) needs `Serial` and
`~ToolsFail`, because without either it is false: overlapping runs exchange their trees in `/tmp`, and run
`repack_tool_fails` shows the other. Its invariant `MergeInv` adds that at most one run is active (`Alone`) and whose trees the
scratch paths hold at each step (`TreesInv`).

**NewcParserProofs.** For every set of archives without negative fields (`Unsigned`; with
them the statements are false, run `newc_signed`): `SpansAreDisjoint` (`EntriesDisjoint`) and
`LoopProgresses` (`Progress`, at least 112 bytes per iteration). `EntriesDisjoint` is not
inductive: a new entry is compared with all earlier ones, and what is known about the current
offset is missing. `ParserInv` adds that the offset is a multiple of four and not before the
end of any span. The argument is one lemma on the arithmetic (`SpanOfEntry`), one per action.
`EveryFileFound` (`NothingLost`) and `WholeArchivesAccepted` (`WholeAccepted`) hold for archives of any number
of files of any size, cut anywhere or followed by anything. They need no induction over data: the loop is
the induction. `ArchiveInv` says that it holds exactly the entries of the first `k` files and stands at the
next header; that behind the trailer it stands at the end of the archive; and that it has raised on an
undamaged archive only if the file is shorter than what cpio wrote. A check can then fail only
for want of bytes, because every file ends inside the archive (`FilesEndInFull`, by taking the last file that does
not) and headers stand at multiples of four (`StartsAligned`, by taking the first that does not).

**PatchAdbdPropsProofs.** For every number of runs, paths, command lines and archives, with
kills and an lz4 that may write anything: `TypeCorrect`, `ReportsAreTruthful`,
`OutputsAreClaimedOnce`, `NeverPatchedTwice`, `CompleteFilesStay`, `RestIsPreserved`,
`PublicationImplemented`. The inductive invariant `Inv` adds to the properties
* `RunInv`: what each run may rely on at each step. The important part is that the *input* is
  still the fragment that was decoded; it holds because nobody writes a complete fragment
  again, which in turn holds because of the two exclusive opens. A run that has read a
  partial output of another run has an archive that is not whole and cannot pass the
  patch step;
* `OwnerInv`: between the exclusive open of the output and the end of a run no two runs own
  the same file;
* `Unclaimed`: no published report names an output that is still owned.

The proof has one lemma per action, `IdleStep` for all the early returns, errors and kills,
and `WriteIsLocal` for what a write to one path leaves true of the others.
`NeverPatchedTwice` needs one fact on the data, `PatchedIsRefused`: after a patch the old line
is gone, so `patch_properties()` would raise. `RestIsPreserved` (`PreservesRest`) needs the opposite: of the lines of
`prop.default` exactly the two that were counted are changed, and no other entry.
`PublicationImplemented` (`Publishes`) takes the steps one by one: the two exclusive opens are `Begin`
(`BeginStep`), lz4 either finishes the draft or is not seen (`CompressPublishes`), the report is
`FinishReport` (`ReportPublishes`), and everything else changes no file. That the report `Holds` is
`RunInv` at that step; that it is `Unrelated` is `OneReportPerOutput` and `NotPatchedTwice` of the state after it.

**PrepareFragmentsProofs.** For any number of runs over one prefix, any images, kills in the middle of
writes and tools that lose files or cut them off: `PairFromOneRun` (`NoMixedPair`) and `PassedIsOnePair` (`VerifiedIsOnePair`). The first holds
because both files are removed before the first is written: `ReplacingInv` says at which step which file is
absent or the run's own. The second needs in addition where the libraries in an F0 come from
(`ContentsInv`: a file under twrp16/ is the CI image's or its beginning, since a stock image has none) and what the verifier has read so far
(`VerifyInv`); it may be believed only because no run is active while it reads (`TurnsInv`).

**KmNegotiationProofs.** `NegotiationAgrees` (`VersionsAgree` of `KmNegotiation`) for every set of
keymaster versions. `VersionsAgree` speaks only of a client that is ready. The inductive
invariant adds what the message under way says about both sides (`MessageInv`: a GetVersion2 response
comes from a server that has already taken the lower maximum; a GetVersion response names the version
the server uses), and that a server nobody has asked still has its default (`ServerInv`), which is
what a client relies on that does not negotiate. The lemma `KnownVersions` is the arithmetic: the
reported major and minor number of an old server stand for its message version. Through
`Negotiates`, which TLC checks, the result carries over to the bytes of `KmSession`.

**KmDeviceProofs.** `LockedOut` (`LockInvalidatesTokens`) for any keys, handles and number of locks. The
property is about the order of events, while the code compares times. The invariant connects them
(`LockInv`): a token that was minted before the last lock has a time not later than
`device_locked_at_`, because the clock never goes back (`TimesInv`), and that time is not 0, because the
clock starts above 0: 0 stands for "never locked". The comparison has to be `<=` for a token of the
same millisecond. `OperationsOfTheirKeys` (`OperationMatchesKey`), `ConfirmationWhole` (`ConfirmationCoversAll`) and
`ClientInStep` (`ClientKnows`) share the invariant `KnownInv` about every operation in the table; the last is
inductive only with it. The first goes through the three tables: an algorithm and a purpose have one factory
(`FactoryOfPurpose`), and the class that it makes has written that purpose into itself (`NewOperation`). The second is one
lemma on buffers (`BufferedWhole`): however the allocations of a call turn out, a buffer that is whole is whole
with the next input, which serves `Update` and `Finish` alike (`FedOperation`). `ErrorsDistinct`: the numbers of `ErrorCode.h` are all different, so a status means one error to the client.

**OwnedMemoryProofs.** For any number of blobs and chains, any heap and any allocation failing: `AllocationsOwnedOnce`
(`OwnedOnce`) and `BlobsFreedWiped` (`FreedIsWiped`). `FreedIsWiped` is not inductive: a destructor wipes as many bytes as the blob
*says* it has, so `SizeInv` adds that a blob with data knows the size of its allocation. (The copy assignment
after a failed copy, which leaves a size without data, is why it is stated of blobs with data only.) Ownership is
kept as a partition: the addresses in use are exactly those that objects hold, no two objects hold the same. The allocator takes
the lowest free address, which exists because a heap is finite.
`UncheckedResultsHeld` (`UncheckedIsHeld`), for any results and objects: the invariant says the same without counting
(`HeldOnce`: one object answers for an unchecked result, and it alone), and a moved-from object is
checked.

**KeyDataProofs.** *Sets.* For any number of sets, any methods and any bound: `ValidSetsAreComplete` (`ValidIsComplete`) is inductive
together with the types, because `loss` goes wherever elements go. `ProxyConcatenates` (`ProxyIsConcatenation`) is
about lookups in two sequences against lookups in their concatenation: the positions with a tag in `a \o b` are those in `a`
and those in `b` moved by the length of `a` (`TaggedBoth`), hence the count is the sum (`CountBoth`), the first is
`a`'s if it has one (`FirstBoth`), and the instances are those of the one that has the tag if only one has (`KthBoth`). `IterInv` says where
an iteration is and what it has shown; an iterator of two empty sets is past the end from the start (`StepOutside`).
*COSE keys.* `KeysStayThemselves` (`AcceptedStaysItself`) and `EcPublicKeysWhole` (`EcPublicKeyWhole`), for maps of any length, with
any labels more than once.
A lookup of a label whose items are all equal gives that item, wherever its entries are (`SingleLookup`), and `canonicalize` only permutes,
in whatever order it leaves entries with one label (`CanonicalKeepsEntries`): the
ranks of a finite set are exactly 0 to n - 1
(`RanksAreNumbers`), so no entry is lost or doubled. `CoseInv` says
that the key and its last encoding have every entry the map had when it was accepted; what the lookups give follows from it
for the labels with one item, and the kind from the labels it is told by (`ToldByWhatItHas`, `KindsApart`).
*Key parameters.* `HalReadsWhatWasPut` (`HalReads`) and `RecordsSayWhatWasPut` (`AttestationFaithful`), for any number of parameters
and any tags. `ParamsInv` says of every entry of the HAL's set that a tag with that number was put with that value, that its
member is the one the declared type reads, and of every value put that it is there. What this needs
of the tables is proved once, from the tables: no two tags share their low 28 bits (`MasksDiffer`), the type that
is declared for a tag is the type in its number (`DeclaredTypes`), every member of the struct has the macro of its kind
(`StructIsSequence`), every tag has a field that can hold it, or is listed as having none
(`FieldsOfTags`), and labels of tags and other claims differ (`AttestationLabelsDiffer`).

**Only model-checked.**
* Liveness (`ParserTerminates`, `SomeRunReports`, `SessionsStart`): the prover has no fairness and no ENABLED.
* Modules with recursive operators, which the prover cannot use: `KmWire`, hence `KmMessages` and `KmSession`
  (`RequestsArrive`, `ResponsesArrive`, `NoPrefixAccepted`, the refinement `Negotiates`, and `VersionsAgree` as it is stated of the
  bytes; `NegotiationAgrees` proves it of the abstract module), and `LinkedList` (`WellLinked`, `ImplementsList`). Writing the
  recursion as functions would not help: reading a message back or walking a list is
  a statement about a recursion of unbounded depth, and induction over data is out of the prover's reach.

## 6. Where code and documentation disagree

Each of these is a run that ends in a counterexample.

* `repack_tool_fails`: the exit codes of lz4 and cpio are ignored. If `lz4 -d` fails on the
  CI fragment, `/tmp/ci_dir` is empty, bin is restored from the template, and an image with no
  library at all is written with exit status 0. The docstring promises CI's files.
* `repack_name`: the name of the recovery entry is zeroed, while `BoardConfig.mk` says that the
  entry is told by type 2 and the name `recovery`.
* `repack_dtb`: the copied DTB starts 64 bytes before the first FDT magic. A template whose magic is
  more than 64 bytes into the DTB section passes the check, and the delivered image has a shifted
  DTB. The docstring says that the DTB is not touched. (The DTB of dash has it at 64.)
* `repack_core`: lines 103-106 delete init, linker64, adbd, fastbootd and toybox from F1 ("delete the core
  components", as does the list in the repository's README), and the restore loop copies them back from a template
  that has them, although its comment speaks of binaries that CI lacks.
* `newc_signed`: a numeric field with a minus sign is accepted as a number, and the loop can
  return to where it came from, forever. No cpio writes such a field.
* `prepare_rc`: RC files are looked for in `recovery/root`, but the tree keeps them in `rootdir/`;
  the miss is silent, and F1 keeps the validated image's files.
* `km_locked`: `DeviceLockedRequest::SerializedSize()` returns 1 while `Serialize()` writes a
  verification token as well. `serializable.h` says that it is the size of the serialized representation;
  a caller that allocates that much sends a request the server cannot read.

Not runs, but seen on the way.

*Tools.* Two overlapping runs of `repack_vendor_boot.py` exchange their CI trees
through `/tmp/ci_dir` and both report success (set `Serial` to `FALSE` in `Repack.cfg` to see it).
A library missing in the CI image is skipped by `prepare_fragments.py`, which reports success,
although the README counts nine; only the verifier notices. Neither notices a file that was cut off when
lz4 stopped early. Step 3 of the repository's README calls
`repack_vendor_boot.py --fragment`, an option the tool does not have (it requires `--ci`);
`evidence/verify_tree.py` forbids `TW_EXTRA_LANGUAGES := true`, which `BoardConfig.mk` sets;
`ueventd.mt6991.rc` has a build module that no product selects.

*Memory.* The copy assignment of `TKeymasterBlob` keeps the size
of its source when the copy failed (line 163). `List::insert` does not look at the result of `new`.

*Authorization sets.* The copy assignment (`authorization_set.h:105`) overwrites the allocation failure that
`Reinitialize` has recorded, so an empty set looks valid, although the comments at 53-56 and 121-125 promise
`ALLOCATION_FAILURE`. `ValidIsComplete` names these sets by `loss = "assigned"`; drop the condition to see
the counterexample. `Reinitialize(set)` and `push_back(set)` take the elements of an invalid set without asking
it (`loss = "unread"`), and the result is valid and incomplete. `AuthProxy::begin()` differs from `end()` when both sets are empty.
The proxy looks up an instance of a repeatable tag in each set by itself: it names an only instance though the other
set has one too, and never reaches the last ones of the second set.

*Tags and records.* The EAT record has no claims for ATTESTATION_ID_IMEI under its own tag (it is UEID), ATTESTATION_ID_SECOND_IMEI,
CREATION_DATETIME, ROLLBACK_RESISTANCE, RSA_OAEP_MGF_DIGEST and USAGE_COUNT_LIMIT, although the comment
(`attestation_record.h:344-345`) says "with the same values" of the ASN.1 record; STORAGE_KEY and CONFIRMATION_TOKEN have a claim
and no field. `AttestationFaithful` lists these tags (`NotAttested`) and requires that a record says nothing of them.
The static assertion on tag types (`keymaster_tags.h:105`) accepts some wrong ones.

*COSE keys.* Nothing refuses a second item under a label, received or added. Lookups take the first, and sorting may
put either first, so a key may be encoded as one of another kind. `AcceptedStaysItself` speaks of labels with one item.

*Device.* `create_confirmation_verifier_buffer()` ("Returns false on allocation failure") returns true when the
storage inside the buffer could not be allocated, and the tag is then missing; `ConfirmationCoversAll` tells these
buffers by `tagged`. A later lock without `password_only` takes back an earlier password requirement.

## 7. Left out

* Contents of files, LZ4 and CPIO encoding: a fragment is its tree and a number of pieces.
* Symbolic links and file modes in trees; `os.path.exists` on a dangling link is not told apart.
* Bytes of the partition behind the table (bootconfig, AVB footer): the tool writes zeros there.
* Headers with a number of fragments other than two. `rd()` is modelled for any, the inputs have two.
* Two *different* tools on one path, and a path that is a directory.
* A failing `lz4 -t` in the recheck of the patcher on a sound file: like a kill at that step.
* Headers that only declare: contexts, key blob formats, legacy wrappers, remote provisioning, the
  generated AIDL proxies and parcelables, gatekeeper. About two thirds of `prebuilt/a15-aidl/include`
  are class declarations, forwarding constructors and comments; their behaviour is in the shared
  libraries of `prebuilt/`, which are binary.
* The HIDL tags (`keymaster-ng/keymaster_tags.h`) and the KeyMint set (`keymint_support/authorization_set.h`):
  one list each that reader and writer share, so there is nothing in them that could disagree. Malformed
  parameters: the conversion that meets them has no body in the repository.
* `Buffer` (read and write positions), sorting and difference of authorization sets, the ASN.1 and CBOR
  encodings and all cryptography: no bodies in the headers.
* Reading through a null pointer after a failed copy (`Readable`) and inserting into a list without memory
  (`Room`): undefined behaviour, where the models stop.
* Several clients of one keymaster server, and threads inside one.
* The libraries, the DTB and the font of `prebuilt/`.
* Board, product and fstab files: declarations; the constants come from them.

## 8. Plan

Done, in this order: the image format and the repack tool, the CPIO parser, the property
patcher, the fragment pair, the proofs for the layout, the parser and the patcher; then the headers:
messages and sessions, memory, lists and results, authorizations, COSE keys and the device, with two
refinements and the proofs for the negotiation and the locks; then the proofs for the runs of the repack
tool, the fragment pair, ownership, results, authorization sets, operations and what the client knows; then for
archives of any size, COSE keys, key parameters, and the patcher as an implementation of `Publication`.

Next:
1. `LocalRepack`: the driver script over `PrepareFragments`. Downloads that leave a partial file
   which the next run takes for complete; a prefix that two runs in one second share; `set -e` and
   which failures it sees. The claim worth checking: "Success" is printed only for an image
   made from complete inputs.
2. `RecoveryInit`: init's command queue, ueventd and the touch bridge. Claims: the bridge runs
   in the end if the node ever appears (comment in `init.recovery.project.rc`), and the node has its
   mode and group even if the wait timed out.
3. `TreeEvidence`: `extract-files.sh` and the stateful part of `verify_tree.py`. Claim: what
   extraction leaves is what verification accepts, also after a failure half way.
4. An abstract specification of the repack as one atomic merge, with `RepackVendorBoot` implementing it when
   runs do not overlap.
