# A TLA+ model of flexpack

`flexpack` prepares ChromeOS Flex images for mass deployment: it downloads a
reference image, unpacks it while it streams, finds the STATE partition and
writes one file, `/unencrypted/flex_config/config.json`, into the ext4
filesystem there with a writer of its own (`src/ext4.go`).  No kernel is
involved, nothing is journaled, and a mistake shows only when a device refuses
to boot or does not enrol.  These modules model the whole way of an image:
manifest, download, copy, partition table, config, injection and writer.

## Inventory

| part | source | state | operations | what makes it correct |
|---|---|---|---|---|
| ext4 layout and reading | `ext4.go` | none of its own | `readInode`, `lookup`, `Resolve`, descriptor and bitmap accessors | finds what is there, refuses what it cannot read |
| ext4 writer | `ext4.go` | the image; `fs.sb`, a live copy of the superblock | `OpenFS`, `Mkdir`, `CreateFile`, `Overwrite`, `Sync` | e2fsck has nothing to say; nothing else is touched; a refusal costs nothing |
| injection | `inject.go` `Inject` | where the walk is | resolve, dry run, replace, walk and make, create, sync | the config is there, whole, or the run says no; reruns work |
| config building | `inject.go`, `schema.go`, `google.go` | fields gathered, diagnostics | `kvFlag.Fields`, `BuildConfig`, `LoadConfigFile`, `ValidateConfig`, `CoerceValue` | what is written is valid, is what was asked for last, and nothing is dropped unsaid |
| download | `fetch.go` | a `.partial` file, hashes, counts | `Fetch`, `checkIntegrity` | only a checked image gets the final name, and good ones do |
| zip stream | `zipstream.go` | none | `ReadLocalHeader`, `parseZip64Extra` | the size and method used are the archive's |
| manifest | `manifest.go` | the stanza being read, images found | `FetchManifest`, `ParseManifest`, `SelectChannel` | stanzas do not mix; the first image of the channel is taken |
| partition table | `gpt.go` | slots read, partitions found | `ReadGPT`, `FindPartition` | the first partition of the name, at its own bytes |
| commands | `main.go`, `google.go` | the output file | `list`, `fetch`, `download_flex_image`, `inject`, `package_flex_image` (`copyFile`), `keys`, `parts` | the input survives; success is a whole tagged image |

How they interact: each command is one sequential process of synchronous calls.
`list`, `fetch` and `download_flex_image` read the manifest, and the latter two
hand an image of it to `Fetch`; `inject` and `package_flex_image` build or load a
config, copy the image if told to, and call `Inject`, which calls the partition
reader and the writer.  Within a process what makes it hard is failure rather
than concurrency: an operation on the image is seven or eight separate writes, a
download a dozen calls, any of which may fail or be the last one before the
process is killed; error returns undo little; and the next run starts from what
is left.  Between processes nothing is locked: two downloads share the name of
their temporary file, and a download may replace an image that is being copied.
The hazards are listed, with their lines, in `PROJECT.json`.

## Modules

| module | what it is |
|---|---|
| `Ext4Image` | the image as data: numbers, inodes, records, descriptors, checksums by what they cover; what `lookup` and `Resolve` see; e2fsck's five passes (`FsckClean`) as the reference |
| `Ext4Writer` | the writer: one action for each write to the image, in the code's order, all error returns, interruption anywhere; its properties and its inductive invariant `IInv` |
| `Ext4WriterProofs` | TLAPS proofs about `Ext4Writer`, step by step |
| `MCExt4` | small images for TLC |
| `ConfigStore` | abstract specification: a config that is absent or present, put whole, replaced by force, never by a dry run |
| `Inject` | `Inject` over the writer: it is shown to keep the writer's contract and to implement `ConfigStore` |
| `InjectProofs` | TLAPS proofs about whole operations of `Ext4Writer`, and about `Inject`: its properties, the contract and the refinement |
| `MCInject` | images and target for `Inject` |
| `Shelf` | abstract specification: the file under a final name is what it was, until it is at once something the request accepts |
| `ZipStream` | `ReadLocalHeader` as operators on the fields of a header |
| `Fetch` | `Fetch` and `checkIntegrity`, by any number of processes on one path, over `ZipStream`; shown to implement `Shelf` |
| `FetchProofs` | TLAPS proofs about `Fetch` |
| `MCFetch` | archives and manifest entries for TLC |
| `Manifest`, `ManifestProofs`, `MCManifest` | `FetchManifest`, `ParseManifest` line by line, `SelectChannel`, and the commands up to the call of `Fetch`; proofs; manifests for TLC |
| `Config`, `ConfigProofs`, `MCConfig` | from the command line to the body of `config.json`; proofs; command lines and files for TLC |
| `Package`, `PackageProofs`, `MCPackage` | `copyFile`, then `Inject`: composes `ConfigStore` and, for a base image replaced meanwhile, `Shelf` |
| `Gpt`, `GptProofs`, `MCGpt` | `ReadGPT` slot by slot, and `FindPartition`; proofs; disks for TLC |
| `NatFacts` | lemmas for proofs: least and greatest numbers, induction over a set of numbers, what a function defined by recursion gives, sums over finite sets |

### Ext4Image and Ext4Writer

`image` is the filesystem on disk, `sb` the code's live superblock copy, `pc` the
next write of the operation in progress, `op` its arguments, `loc` its locals
(group, the descriptor being edited, inode and block numbers), `ret` its result.
`hist` is history for the properties: interruptions, refusals after a first
write, calls, sessions that ended with counters not flushed, and the image the
operation started from.

`Mkdir` and `CreateFile` share their steps: `LookupName` (size check, clash),
`PickGroup`, `AllocInode` (bitmap), `AllocBlock` (bitmap), `WriteDesc`,
`WriteBody`, `WriteInode`, `AddDirent`, and for `Mkdir` `WriteParent`.
`Overwrite` is `OverwriteData`, `OverwriteInode`.  A step that returns an error
closes the session (`Refuse`), as every caller in `src/` does: none continues
and none syncs after one.  `Kill` may come before any write; a failing write is
the same event.

Abstracted: bytes, times, owners, modes other than directory or file, the place
of metadata blocks, the checksum functions.  A checksum is kept as what it was
made with and what it was made from (`Seals`): `"uuid"` is crc32c seeded from
the UUID, `"explicit"` from a seed in the superblock, `"crc16"` the older kind,
`"stale"` one that matches nothing.  A name is a model value with a length.  A
directory block is its sequence of records, with record lengths in bytes, since
splitting the last record is where addDirent can go wrong.

`FsckClean` is written after what `e2fsck -fn` checks, pass by pass, because the
code names it as its judge (`src/ext4.go:22`).  e2fsck repairs superblock totals
silently and lets a lone wrong descriptor checksum pass, so `SuperblockAgrees`
and `ChecksumsValid` are separate.

The callers in `Ext4Writer` are free: an open session may call any operation on
any directory or file of the tree with any name and data, and sync or close at
any time.  `Inject` restricts them to what `inject.go` does.

### Inject and ConfigStore

`at` is the place in `Inject`, `opt` the options, `depth` and `cur` the walk.
`OpenImage` and `OpenFails` stand for opening the file, the partition table and
the filesystem; which partition is found is `Gpt`'s question.  The target is a
cleaned path.  Runs follow one another on the same image, with new options each time.  The
refinement maps `config` to what a reader of the image finds at the target:
nothing, or contents and size.  An interrupted replacement may leave the new
contents with the old size, which is why `ConfigStore!Replace` has two halves;
a new config appears in one step, with its directory record.

### Fetch, ZipStream and Shelf

`pc[p]` is the place of process `p` in `Fetch`; `net[p]` the response body still
to come and what the `TeeReader` has passed to the hashers; `sink[p]` the open
file, the bytes written and what `LimitReader` has left; `name` the directory
entries of `outPath` and `outPath.partial`, `content` the inodes.  A process keeps
its inode when the name moves on, as POSIX has it: that is what makes two
processes interesting.  The wire is a sequence of units: a header, the body, its
end mark if it is deflated, the tail (data descriptor and directory).  A hash is
the sequence that was hashed.  `ReadHeader` takes the sizes from `HeaderSizes`,
with `int64` conversion and the zip64 record the code would find; a stored body is
copied up to the limit or to the end of the wire, a deflated one up to its end
mark.  `Fault` is any call that fails; `Get` may serve the wire cut with an error,
cut without one, or with a unit spoiled; `Kill` comes anywhere and removes
nothing.  `Cleanup` is the deferred close and `os.Remove`, on success too.

`ImplementsShelf` maps the shelf to the contents under the final name.  What
`Accepts` demands is stated of the manifest, not of the code: with a hash and a
check, the file is the image.

### Manifest

`line` is the scanner's place, `current` the map of fields, `images` the list.
`ScanBreaks` is a read error or a line too long, at any line.  The reference
(`Stanzas`, `Described`) is a declarative reading of the same lines.  `body` is the
manifest at the URL and `served` what `io.LimitReader` lets through of it: the cap of
4 MiB falls in line `MaxLines` or at its end, and `Torn` says what may be left of that
line.  An image's name and version, which are only printed, are left out.

### Config

One step for each `--set` pair and for each key `ValidateConfig` visits, in any
order, since it ranges over a map.  The body is kept as the sequence of fields the
code writes, where a key may come twice; its readers take the last (`Probe`).
The reference is Chromium's three rules as `src/schema.go:8-22` tells them.
`FlagsGood` has the two commands' checks side by side.

### Package

`copyFile` chunk by chunk (`Open`, `Create`, `CopyChunk`, `SyncCopy`), on names and
inodes like `Fetch`'s, then `Inject` as `ConfigStore` allows it: `Write` is any
change that is a `Store!Put` or a `Store!Replace`, so the module rests on what the
`inject` run checks.  `Fetched` puts a new base image under the input's name at
any moment, as `Shelf!Publish` allows.

### Gpt

`ReadHeader` is the plausibility check and the read of the table, `SkipSlot` and
`TakeSlot` the loop, `Pass` and `Find` the search.  Sector numbers are words that
wrap at `2 * Half64` and turn negative from `Half64`.  A name is its units up to the
first zero.

## Runs

| run | what it asks | result |
|---|---|---|
| `writer` | three calls, one interruption, on usual images (one with an uninitialised group and no checksums, one with checksums, a file and an unused record): is the filesystem clean, are totals and counters right, checksums valid, bystanders and names kept, success real? | holds |
| `limits` | two calls and two interruptions on images at a limit (group 0 out of blocks; hashed root; full root; root of two blocks): does anything dangle, how much leaks, which refusals cost something? | holds |
| `inject` | three runs with any options, up to two interrupted, on seven images that may fail to open: does `Inject` keep the writer's contract, implement the store, leave a clean image on success, write nothing on a dry run, and fail only for a reason? | holds |
| `fetch` | two downloads by one process, of thirteen offers, checked or not, with one fault and one kill: does it implement the shelf, do good archives arrive after whatever came before, is nothing left behind, does every run end? | holds |
| `manifest` | every manifest of up to four pieces, cut and broken anywhere, under three commands: are the images the stanzas, is the one fetched the first of the channel, and does the cap cost no more than the end? | holds |
| `config` | every command line with up to two `--set` pairs, every file of up to three fields: is what is written valid, delivered, the last setting; are drops announced; are refusals justified? | holds |
| `package` | two runs with any options over an old output, with a fault, a kill and a replaced base: is the input kept, a dry run idle, success whole, a refusal the input's fault? | holds |
| `gpt` | every table of up to three slots, with two entry lengths and five places: is the first of the name found, at its own bytes? | holds |
| `stranded` | is the filesystem clean after any refusal? | violated: addDirent refuses after the allocation |
| `seeded` | are checksums right on a filesystem with an explicit seed? | violated |
| `longfile` | is the filesystem clean after overwriting a file of two blocks? | violated: the size is too small for the blocks |
| `fetchshared` | with two processes on one path, is the final name what it was or an image when both have ended? | violated: one renames what the other has just truncated |

All runs set `CHECK_DEADLOCK FALSE`: the bounds on calls, runs, faults and
interruptions stop the system, and `Manifest`, `Config` and `Gpt` end when their
one command does.

Bounds.  Two groups of six inodes and six blocks, so that allocation may fall
through to the second group and a group may be full, uninitialised or in
between; the first block number is 1 and the first free inode is 4, so that
off-by-one and base errors show.  A block of 80 bytes holds `.`, `..` and two
names, so that the third does not fit.  Counters wrap at 256 (`CounterMod`), far
above any count here, so that a wrap is seen.  Three names make a target as deep
as the real one.  Data comes in three sizes: smaller than a block, a block, a
byte more.  `MaxCalls` 3 lets a call follow two others' effects; `MaxKills` 2
lets an interruption strike a run that cleans up after one; `MaxRuns` 3 lets a
third run face both.

In `fetch` images have two or three units, so that a stream may stop at, before
and after every boundary; a size field holds 0 to 3 and 4 is 0xFFFFFFFF, so that
zip64 happens; 16 is 2^63, so that a size may be negative.  Offers are stored and
deflated, plain, zip64 and streamed, with records before the zip64 one, with
manifests that give all, one or no check, and four kinds of bad header.  Two runs,
one fault and one kill let a run follow a killed or failed one.  `fetchshared`
needs one run of each of two processes and a kill.  `manifest` caps at twelve
lines of up to twenty, which cuts the longer manifests between stanzas, inside one,
or inside a line of one.  In `package` an image has
two chunks, the last with the config, so that a copy may be short, mixed or whole;
five inodes are more than names and descriptors can hold.  In `gpt` sectors have 4
bytes and entries 2 or 3, and `Half64` is 36, so that table offsets and partition
ends wrap.

Fairness.  `WF(Step)` in `Ext4Writer`: a called operation is ordinary sequential
code with no waiting in it, so it goes on unless it is killed.  `WF(Run(p))` in `Fetch`: besides its own code a run waits for
the server alone, which has no timeout (`src/fetch.go:44`, "rely on the server"):
`RunsEnd` there is about the code's loops, and assumes a server that sends, ends
or breaks off.  Nothing forces a call, a run, a fault or a kill.  `Inject`,
`Manifest`, `Config`, `Package` and `Gpt` state no fairness and no liveness: their
loops range over what has a length.

Assumptions.  A file name leads to an inode, which lives while a process has it
open.  A hash distinguishes what it hashes.  A manifest entry that gives a hash
gives that of the archive at its URL, and the archive holds the image.  A spoiled
unit is detected by the inflater or expands to something else.  UTF-16 names are
well formed.  Of a key given twice JSON readers take the last.

## What the properties say

- `CleanBetweenOperations`: with no interruption and no late refusal, e2fsck is
  clean between operations.
- `TotalsFollowGroups`: the live superblock copy follows the groups, and the disk
  has its totals after every session that synced what it wrote.
- `CountersBounded`: counters never wrap, and the totals on disk never fall below
  what the groups promise - interrupted or not.
- `ReferencesResolve`: interrupted or not, whatever the tree refers to is marked,
  owned once and of the right kind: work may leak, never dangle.
- `LeaksBounded`: an interruption or a late refusal loses at most one inode and
  one block.
- `RefusalsLeaveNothing`: a refusal leaves the image as it was, but for no room in
  the directory and for a group that an interruption left promising too much.
- `BystandersKept`, `NamesKept`: no step rewrites another file, loses a name, or
  moves one to another inode.
- `ChecksumsBetweenOperations`: every checksum asked for is there and covers what
  is stored.
- `SuccessIsReal`: what a call returns without an error is what a reader finds.
- `SuccessIsClean`, `DryRunsReadOnly`, `FailsForAReason`, `WriterSpec`,
  `ImplementsStore`: the same for whole runs of `Inject`.
- `ImplementsShelf`: the final name changes at once, at most once in a run, to what
  the request accepts; success means it has, failure that it has not.
- `GoodArchivesArrive`: a run that meets no fault ends with the image of every
  archive a zip writer makes, whatever a killed run left behind.
- `NothingLeft`: without a kill the temporary name is free when nobody runs.
- `ImagesAreStanzas`, `FetchesTheChannel`: what is parsed is what was read, all of
  it or nothing, and the first image of the channel is what is fetched.
- `CutSparesTheRest`: of a manifest longer than the cap, every image before the cut
  is found with its own values and in its place, and at most one more.  That one is
  what is left of the stanza across the cut, maybe with a value cut short.
- `AcceptedIsValid`, `TokenDelivered`, `LastSettingWins`, `NothingDroppedSilently`,
  `RefusedForAReason`: see the inventory; they relate the command line to what
  Chromium's rules deliver from the body written.  The last says that a file is
  refused for its types only where Chromium would refuse it, and leaves out the files
  the code is stricter with (see below).
- `InputKept`, `DryRunTouchesNothing`, `OkMeansTagged`, `RefusedForTheInput`: with
  `-o` the input is only read; success is one whole base with the config asked for,
  even if the base was replaced while it was read.
- `FoundIsFirst`, `FoundIsWhere`: the slot and the bytes are those of a fresh,
  declarative reading of the table.

Each property has a mutant in `PROJECT.json`: a plausible slip in the code that
breaks it.

## What is proved

All theorems are of a module's whole specification, for every value of its
constants that the named assumptions allow, and with no bound on interruptions,
faults, runs or lengths.  A theorem with a hypothesis of its own names it below; it is
defined at the end of the component's module, and the MC module assumes it, so TLC
evaluates it for every constant the passing runs use (but `OneProcess`, which only
the run `fetch` has, and `StartsSealed`, which `seeded` has not).

Induction over data.  A lemma that takes an operator is out of the prover's
reach, so `NatFacts` does induction on a set: `UpTo` says that a set of numbers
with 0 that is closed under successor within `0 .. n` is all of it, from the
well-foundedness of `<`; `Recursion` then gives a function with each value made
from the one before, which is what the recursive function `Walk` of `Ext4Image` is
unfolded with.  A sum over a finite set is a function of its subsets
(`Adds`); `SubsetByElement` is induction over subsets of a set of them, and gives the
bounds of a sum and what it is after one term changes.

### Writer

`Ext4WriterProofs` and, for the last two, the first part of `InjectProofs`, for every
geometry, every set of names and contents and every set of clean initial images
(`GeometryAssumption`, `NamesAssumption`, `ImagesAssumption`):

- `TypeCorrect`: `Spec => []TypeOK`.
- `ReferencesAlwaysResolve`: `Spec => []ReferencesResolve`.
- `BystandersSafe`: `Spec => BystandersKept`; `NamesSafe`: `Spec => NamesKept`.
- `ChecksumsSafe`: `StartsSealed => (Spec => []ChecksumsBetweenOperations)`.
- `SuccessSafe`: `NamesFit /\ StartsWithoutHoles => (Spec => SuccessIsReal)`.
- `CountsSafe`: `CountersFit /\ TotalsAgree => (Spec => []CountersBounded)`, and
  `TotalsSafe`, the same of `TotalsFollowGroups`.
- `RefusalsSafe`: `GroupsFit => (Spec => RefusalsLeaveNothing)`.
- `StaysClean`: `GroupsFit`, `NamesFit`, `StartsWithoutLongFiles`,
  `StartsWithWholeNames` and `LinksFit` give `Spec => []CleanBetweenOperations`.
- `LeaksStayBounded`: `GroupsFit => (Spec => []LeaksBounded)`.

`ReferencesResolve` is not inductive: that the inode written by
`WriteInode` is nobody's, or that the record added by `AddDirent` leads somewhere,
depends on what earlier steps of the same operation did.  `IInv` adds it:
`ArgumentsHold` (the handle is a fresh copy of an inode in use, a directory with
one extent when something is made in it), `GroupHolds` (the group is initialised
on disk and in memory), `InodeHolds` and `BlockHolds` (the numbers taken are
marked, still free, then linked, and a new directory's block holds its records
before its inode exists), and `ExtentsOwned`.  The lemmas go from numbers
(`DivLemma`, `InoNumLemma`, `BlkNumInjective`) to writes (`GrowKeeps`,
`BlockWriteKeeps`, `InodeCreateKeeps`, `InodeRewriteKeeps`) to one lemma for each
action, and `NextIInv` puts them together.  That one write of a block spares all
other files rests on `BlocksOwnedOnce`, hence on the same invariant.  `NamesKept`
follows from it too, since only `AddDirent` rewrites a directory's records, and
keeps all but the length of the last.

`CInv` adds that what is in use is sealed over what is stored, whatever was
interrupted (`SealsHold`), and that bitmaps and descriptors are (`SumsHold`) but for
what the operation in progress has yet to seal.  `StartsSealed` is that the images
are valid at first and have their checksums from the UUID or have none; the run
`seeded` shows that it is needed.

`SInv` adds what the operation has made so far: the block has the contents asked
for, the inode maps it with their length, the record names it (`MadeHolds`).  Its two
hypotheses are things the code does not look at.  `NamesFit`: a name is shorter
than 256 bytes, since `byte(len(name))` (`src/ext4.go:682`) keeps eight bits.
`StartsWithoutHoles`: no file of one extent is an unwritten extent, since
`firstExtentBlock` (`src/ext4.go:418`) takes one for data and `Overwrite` would put the
contents where no reader looks.

What counts is proved from the shapes of the steps (`NextShape`): for the counters a
step ends a session, opens one, flushes, chooses a group, takes an inode, takes a
block, writes a descriptor, or does none of these.  `GInv` adds to `IInv` that the
descriptor in memory is the one on disk less what the operation has taken
(`DescHolds`): the code subtracts from a copy read before the bitmaps were written,
so this is what keeps a group's counter from wrapping.  `NInv` adds that the totals,
with what is taken and not yet in a descriptor, are never below the sums over the
groups (`Covers`) and equal to them while nothing was disturbed (`Agree`): a total
may be subtracted only because some group still promises as much.  The hypotheses:
`CountersFit`, that the modulus of the fields (`CounterMod`) is above what they
count, and `TotalsAgree`, that the superblock is right at first, which the code does
not look at and `e2fsck` repairs without a word.  The sums (`MapThenSumSet` over the
groups) are those of `NatFacts`.

`RInv` says why a refusal after the first write is one of two: `DirsFormed`, that the
records of every directory chain to the end of the block, whatever was interrupted;
`Unclashed`, that what `lookup` found out stays so until the record is added; and
`Promised`, that a group's free count is what its bitmap leaves while nothing was
killed, so that `allocBlock` finds the block `pickGroup` was promised.  For
`DirsFormed` `TotalRec`, a left fold, is shown to be a sum (`TotalRecIs`), a record
more adds its length (`TotalRecMore`), and `WithDirent` divides the last record's
(`WithDirentWellFormed`).  `GroupsFit`, which `CountersFit` implies, is needed as
above.

`CleanBetweenOperations` says nothing of the states inside an operation, where
hardly any part of it holds, so the invariant speaks of two images: the one the
operation began with, which `hist.before` keeps, and the one it has by now.
`Progress` says what differs between them, write by write: the bits taken, the
descriptor less one of each, the inode, the record.  At the end of a call this adds
up to one relation for all that `Mkdir` or `CreateFile` has done (`WasMade`) and one
for `Overwrite` (`Overwrote`), and what is left has no steps in it: if the old
image is clean, the new one is.  Each part of `FsckClean` has its lemma:
`MadeSound` for directories, `MadeAttached` for the tree (the search of `Reachable`
runs as many rounds as there are directories, which is enough: `SearchEnds`),
`MadeLinksMatch` for link counts (sums over directories of numbers of records),
`MadeBitsMatch` for bitmaps and counters, `MadeSized`, `MadeScanned`.
`OperationsStartClean` is the invariant.  Its hypotheses: `StartsWithoutLongFiles`, which
the run `longfile` shows is needed (`Overwrite` sets a size that does not cover a
second block); `LinksFit`, since `setLinks` (`src/ext4.go:404`) keeps sixteen bits and
nobody looks; `NamesFit`; and `StartsWithWholeNames`, that a record in use has its
name's length, as a name read from a disk has.

For `LeaksBounded` no image need be clean.  `LostInvariance` counts at the image the
operation began with (`LostBefore`): that one has lost no more inodes and blocks than
there were interruptions and late refusals.  From there to the image on disk the tree
only grows and no bit is set but those of one inode and one block (`Takes`), so an
operation in progress has lost one more of each at most; when it returns, the new
inode has a path, and maps the block; when it is killed or refused late, the history
counts one more.

### Inject

The rest of `InjectProofs`, besides for every target (`TargetAssumption`):

- `InjectTypeCorrect`: `InjectSpec => []InjectTypeOK`.
- `InjectUsesWriter`: `InjectSpec => WriterSpec`; with it `InjectReferencesResolve`.
- `DryRunsSafe`: `InjectSpec => DryRunsReadOnly`.
- `StoreImplemented`: `NamesFit /\ StartsWithoutHoles => (InjectSpec => ImplementsStore)`.
- `SuccessesAreClean`: what `StaysClean` and `TotalsSafe` suppose and `StartsSealed`
  give `InjectSpec => SuccessIsClean`.
- `FailuresHaveReasons`: `GroupsFit` and `NamesFit` give `InjectSpec => FailsForAReason`.

That `Inject` is a caller as the writer expects one needs an invariant: the handle it
passes has to be a fresh copy of a directory in use.  It comes from `Resolve` or
`lookup` when the directory was there, and from `Mkdir`'s result when it was not, and
several writes lie between taking it and using it.  `JInv` adds to `SInv` the phases
of a run (`Phases`), that the handle is where the path walked so far leads
(`WalkHolds`), and that what a reader finds at the target is what it was when the
run began until the run writes it (`StoreHolds`).

For the refinement `Walk` is followed through every write.  A write of the writer
lets the tree grow (the relation `Grows`): what a walk found, it finds again, and
one that ended early can lead somewhere new only by the record just added.  So
making a directory never brings a config into being, `CreateFile`'s record brings it
in one step with its contents and size, since `SInv` has them in place before, and
`Overwrite` changes contents, then size.  All other steps, kills and reopenings
stutter.

`SuccessIsClean` rests on the writer's invariants, which `InjectRight` carries over, and
on `Flushed`: where `Inject` may return without an error, the totals in memory are
those on disk, read by `OpenFS` or written by `Sync`.  For `FailsForAReason`,
`FailedHolds` keeps the reason from the writer's refusal until `Inject` returns it.
Each refusal is matched with a reason (`MakingFails`): what `RInv` knows rules out
those of `addDirent` that `lookup` has settled, and the place of the walk rules out a
clash and a directory that cannot be read; `DepthIs` shows that the directory without
room is the one the path, read again from the root, ends at.

### Fetch

`FetchProofs`, for any number of processes on one path, any archives and manifest
entries, any headers (`WidthAssumption`, `FetchAssumption`; there are more inodes
than processes and names):

- `TypeCorrect`: `Spec => []TypeOK`.
- `NothingStays`: `Spec => []NothingLeft`.

`NothingLeft` speaks of states in which nobody runs and is not
inductive; `Owned` is: while nothing was killed, a file under the temporary name
has a process past `os.Create` that is still to rename or remove it.  `Create`
makes such a process; `Rename` and `Cleanup` free the name, whoever made the file;
every other step leaves both alone.  For the types, `FreeInode` counts the inodes
in use to show that `os.Create` finds one, `SizesType` follows a header through the
zip64 record to an `int64`, and `WriteType` shows what a write at an offset makes of
a file.  The `fetch` run has one process; the theorem covers the others.

With one process, when what the manifest gives a hash for is the image
(`OneProcess`, `TruthfulManifest`):

- `OneKeepsItsFile`: `[]KInv`; with it `ShelfImplemented`: `ImplementsShelf`.
- `ArchivesArrive`, besides from `SoundOffers`: `GoodArchivesArrive`.

The run `fetchshared` shows that `OneProcess` is needed.  `KInv` has the two names
lead to different files (`Keeping`), so what is written is never under the final one;
`Copied` is what of the wire lies between the header and the place of the reader,
less what has gone into the file; a limited reader gives no more than the limit, and a
decoder stops at the end mark.  At the check these give `CopiedIsImage`: where a hash
of all of the wire matched, the file is the image.  Of a good archive `Unspoiled` says
that no step so far has refused it, step by step through the header, and `Arriving`
that the copy ends with all of it; that the sizes are the right ones comes from
there being one zip64 record with both (`HeaderSound`).

### Package

`PackageProofs`, for any bases, configs and files (`PackageAssumption`):

- `InputSafe`: `StartsApart => (Spec => InputKept)`.
- `DryRunSafe`: `StartsApart => (Spec => DryRunTouchesNothing)`.
- `TypeCorrect`, `SuccessIsTagged`, `RefusalIsTheInputs`: from `StartsApart /\
  StartsImages`, `[]TypeOK`, `OkMeansTagged` and `RefusedForTheInput`.

`StartsApart`: at first the two names do not lead to one file, which the commands do
not check.  `StartsImages`: a file at first is an image or the beginning of one.
The names stay apart, since `Create` and a download take a fresh inode;
hence what `copyFile` and, with an output, `Inject` have open is never what the
input's name leads to; and on a dry run no step that writes is reached.  `PInv` adds
that the copy in progress is the beginning of the file that was opened, even when the
input's name has moved on, and all of it when it is injected into.

### Config

`ConfigProofs`, for any command lines, files, keys and values (`ConfigAssumption`,
`SchemaAssumption`: the schema's keys and words are strings):

- `TypeCorrect`: `Spec => []TypeOK`.
- `WrittenIsValid`: `Spec => []AcceptedIsValid`.
- `DropsAreTold`: `Spec => []NothingDroppedSilently`.
- `TokenArrives`, `LastWins`, `RefusalsHaveReasons`: `[]TokenDelivered`,
  `[]LastSettingWins`, `[]RefusedForAReason`.

The first three are about the loop over keys: each key visited (`Visited`) had its
type or made `fatal` true, and was warned of unless registered; nothing is
forgotten, and acceptance comes when no key is left.  The others are about the order
of appending.  `GInv` says that the fields gathered are the pairs read so far, each
good; `FieldsAre` places the tool's, the automation's, the pairs' and the note's
fields in the body, and `ProbeIsLast` that the last of a key is the one read.

### Manifest

`ManifestProofs`, for manifests of any length and any spelling of channels
(`ManifestAssumption`):

- `TypeCorrect`, `ParsesTheStanzas`, `ChannelIsFetched`, `CutCostsTheEnd`:
  `[]TypeOK`, `[]ImagesAreStanzas`, `[]FetchesTheChannel`, `[]CutSparesTheRest`.

The reference describes whole manifests, the code reads a line at a time.  `MInv`
relates them at any line: `images` is what the stanzas that have ended describe,
`current` what `Value` gives of the lines of the stanza in hand.  That an image has its
place by the number of stanzas before it (`Counts`, `FewerBefore`) is where the
finite sets are needed.  For the cut, `Served` says that what is scanned is what the
cap leaves of the manifest, and `CutStanzas` that its stanzas before the cut are the
manifest's, in the same places, with one more at most.

### Gpt

`GptProofs`, for any disk, name, field width and number of slots (`GptAssumption`,
`DisksAssumption`):

- `TypeCorrect`, `FirstIsFound`, `FoundAtItsBytes`: `[]TypeOK`, `[]FoundIsFirst`,
  `[]FoundIsWhere`.

`Listed` says that the partitions listed are the slots in use before the slot in
hand, in order of their numbers; `Searched` that those passed do not have the name.
`DecodedIsWanted` shows that a decoded name equals the wanted one just when the field
holds it up to its end, and the arithmetic that nothing wraps inside the disk.

### Model-checked only

Liveness, which needs fairness and ENABLED: `RunsEnd` in `Fetch`.  Every
other property of a run that passes has a theorem.  Of the runs that find a violation,
`seeded` and `longfile` break a property whose theorem has the hypothesis they lack
(`StartsSealed`, `StartsWithoutLongFiles`); `RefusalsKeepClean` and
`OnlyFinishedImages` have a counterexample and no theorem.

## Where code and documents disagree

Four disagreements have a run and are described under "findings" in
`PROJECT.json`.  Others were met while modelling; they follow from the lines named
and have no run of their own:

- A filesystem with `gdt_csum` and no `metadata_csum` gets crc32c descriptor
  checksums where it needs crc16 (`src/ext4.go:221-225`).
- With `-o` naming the input, `os.Create` empties it before a byte is read
  (`src/main.go:255`); no path is compared.  Starting `Package` with both names on
  one inode violates `InputKept`.
- The message that sha1, md5 and both sizes match (`src/fetch.go:113`) is printed
  also when the manifest gave none of them (`src/fetch.go:126-143`).
- "download complete" is printed by a deferred call on every error return after the
  response (`src/fetch.go:60`, `203`).
- A stored entry with a data descriptor is copied with the archive's tail, and then
  refused, or kept if nothing is checked (`src/fetch.go:71-80`); `README.md:287` of
  the repository says both are handled.  `GoodArchive` leaves it out.
- A mistyped `enrollmentAssetId` or `enrollmentAutoAttributes` in a config file is
  fatal (`src/schema.go:198`), though `fatal` is to be "when a type mismatch would make
  Chromium reject the config" (`src/schema.go:188`) and Chromium does not look at
  either.  `RefusedForAReason` leaves such files out (`SchemaOnlyKeysTyped`); without
  that condition it is violated by the file `{"enrollmentAssetId": 7}`.
- A config file that is the JSON `null` is accepted as an empty dictionary
  (`src/inject.go:248`) and written as it is.  The repository does not say what a
  device makes of it; `AcceptedIsValid` counts it as valid.
- `--set enrollmentToken=...` replaces the token that was checked with one that was
  not (`src/inject.go:197`).  `TokenDelivered` leaves it out.
- With `--config`, `--set`, `--desc` and `--automate-setup` are ignored without a
  word (`src/main.go:213`).

## What the model does not show

Reading and writing of single bytes and fields; block sizes and 64-bit layouts;
feature flags other than checksums; filesystems that were not cleanly unmounted
(the code does not check); two injections into one image at once
(`src/ext4.go:17` excludes it); writes the operating system reorders before `Sync`
returns when the machine, and not only the program, stops; a partition shorter than
its filesystem says; a server that stalls for ever.  A write that fails is the same
event as a kill before it: what it leaves on disk is the same, since no caller writes
after one, but that `Inject` then reports an error is not in its model.  The logical
number of an inode's extent, which the code never reads, is taken to be 0.  A
partition table is read into memory made for it beforehand, up to 4 TiB
(`src/gpt.go:48`); that the memory runs out is not modelled.  Partitions whose sector
numbers wrap, or that end before they start, are modelled and no property speaks of
them.

Not modelled, since it keeps no state and only prints: `keys`, `parts`, `version`,
the usage texts, the dispatch on the program's name, the progress display and
`humanBytes`.  The schema's texts are left out; its keys, types and warnings are in
`Config`.

## Plan

1. Done: `Ext4Image`, `Ext4Writer`, `ConfigStore`, `Inject`, and their proofs.
2. Done: `ZipStream`, `Fetch`, `Shelf`, `Manifest`, `Config`, `Package`, `Gpt`, and
   proofs of their safety properties.
3. Done: proofs of `CountersBounded`, `TotalsFollowGroups`, `RefusalsLeaveNothing`,
   `CleanBetweenOperations`, `LeaksBounded`, `SuccessIsClean`, `FailsForAReason`.
4. If the code comes to look at the needs-recovery flag, to lock the image or to set a
   timeout, a model of the journal, of two injections, or of a server that stalls.
