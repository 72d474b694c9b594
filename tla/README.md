# Formal verification of the 7z plug-in for ACDSee

This directory models the plug-in `AX_7Z.apl` (`src/plugin`, `src/archive`), the
part of the LZMA SDK it is built with, and the SDK's encoders and
multi-threaded coders that lie beside it (`src/archive/lzma/C`). TLC checks the
models on small instances; TLAPS proves the results listed under *Proofs* for
every value of the constants. Paths below are relative to the repository; the
line numbers of every definition are in `PROJECT.json` ("map").

## 1. The system

ACDSee (the *host*) loads the DLL, calls `AMP_Init`, and works with archives
through handles. `AMP_OpenArchive` gives a handle, `AMP_GetArchiveInfo` the list
of its files, `AMP_FileDecode` the contents of one of them, into memory or into
a file, `AMP_CloseArchive` ends it. The host has several threads. The target is
32-bit Windows (README.md: x86 only), so a `size_t` has the width of a `DWORD`.

| component | state | operations | interacts with |
|---|---|---|---|
| plug-in entry points (`AX_7z.cpp`, `dllmain.cpp`) | the global plug-in object | `AMP_*`, `DllMain` | forwards to the plug-in class |
| plug-in class (`7zPlugin.cpp`) | `ArchiveHandle`: archive, critical section, decode cache, vector of files | `OpenArchive`, `GetArchiveInfo`, `FileDecode`, `CloseArchive` | calls `SevenZArchive` under the critical section; hands pointers to the host |
| decode cache (`7zPlugin.cpp`) | 8 entries with index, data, time stamp; the stamp counter | `cacheFind`, `cacheInsert`, destructor | owned by `ArchiveHandle` |
| `SevenZArchive` (`7zArchive.cpp`) | `isOpen_`, file and look stream, tables `db_`, one decoded solid block | `open`, destructor, `getEntryInfo`, `extractToMemory` | calls the SDK with its own allocator |
| `SzArEx_Extract` (`7zArcIn.c`) | none of its own: block index, buffer and size are the caller's | one extraction | `SzAr_DecodeFolder`, CRC |
| header reader (`7zArcIn.c`) | `CSzArEx` under construction, temporary buffers | `SzArEx_Open2`, `SzReadHeader2`, property readers | look stream, folder decoder for packed headers |
| folder decoder (`7zDec.c`) | temporary buffers | `SzFolder_Decode2` | coders, look stream |
| streams (`7zStream.c`, `7zFile.c`) | read-ahead buffer, file position | Look, Skip, Read, Seek | operating system |
| LZMA and LZMA2 decoders (`LzmaDec.c`, `Lzma2Dec.c`) | dictionary, probabilities, input held back, chunk automaton | decode a piece, parse | folder decoder, multi-threaded decoder |
| BCJ2 decoder (`Bcj2.c`), filters (`Bra*.c`, `Delta.c`) | four stream pointers; none | decode a buffer | folder decoder |
| multi-threaded coding (`MtCoder.c`, `MtDec.c`, `Lzma2DecMt.c`) | rings of blocks, events, semaphores, threads | encode or decode block by block | readers, writers and block coders as callbacks |
| match finders (`LzFind.c`, `LzFindMt.c`, `LzFindOpt.c`) | window, hash and tree tables; two rings between three threads | read on, get matches, skip | LZMA encoder |
| LZMA and LZMA2 encoders (`LzmaEnc.c`, `Lzma2Enc.c`) | the plan of the parser, probabilities, range coder, chunk buffer | code a block, a chunk, a stream | match finder, `MtCoder` |
| BCJ2 encoder (`Bcj2Enc.c`) | undecided bytes, range coder | encode a piece | four output buffers |
| CRC, hashes, CPU detection, allocation | tables | pure | everywhere |

Multi-threaded coding, match finders and encoders are in the tree but not in
`archive/lzma/CMakeLists.txt`: the plug-in does not call encoders, match
finders or the multi-threaded coders. They are modelled all the same, as the
SDK's own code, since they hold most of its concurrency.

### What is hard

* **Concurrency.** `FileDecode` is called by several threads on one handle and
  shares two caches and the file position; one critical section guards them.
  `GetArchiveInfo` does not enter it.
* **Two caches, one above the other.** The decode cache sits above the cache of
  one solid block that `SzArEx_Extract` keeps in the caller's variables and
  trusts on the next call. Entries without a CRC are served from it unchecked.
* **Failure.** Every allocation, read, decode and write can fail, half way
  through; buffers change owner several times on the way.
* **Arithmetic.** Sizes in headers are 64 bits wide and may be anything;
  positions wrap; a `size_t` has 32 bits; the stamp counter wraps.
* **One-pass bookkeeping.** The header reader builds four tables with nine
  running variables in a single loop: digests with holes, bit vectors flushed
  at byte boundaries, folders without streams, entries without data.
* **Pieces.** The coders are given input and room in pieces of any size and have
  to come to the same text, and to the same verdict at the end.
* **Reading twice.** The header reader goes over folders, counts, sizes, digests
  and flags once to check and measure them, and again, with other functions and
  fewer checks, to use them.
* **Threads of the SDK.** Blocks are read, coded and written by different
  threads in a ring; one that fails has to stop the others, without leaving
  one waiting, and without a gap in what was written.

What makes each component correct: the decode path answers every call as a
decoder without caches would, and owns every allocation exactly once; the cache
evicts what was used longest ago; the listing is exact and its pointer stays
good; opening leaves nothing behind when it fails, wherever that is; the second
reading of a header finds what the first one measured, and the tables place
every entry where the format says and never outside its block; a decoder's
output depends on the stream only, not on the pieces; what an encoder writes, a
decoder reads; many threads produce what one would, and every call returns.

## 2. Modules

| module | models | kind |
|---|---|---|
| `LruPolicy` | what the decode cache promises | abstract specification |
| `DecodeCache` | `cacheFind`, `cacheInsert`, slots and stamps; declares the addresses and `NULL` | implements `LruPolicy` |
| `SolidBlock` | the tables of an open archive; `SzArEx_Extract` and `extractToMemory`, the cache of one block; what an address holds | extends `DecodeCache`; steps used by `ArchiveHandle` |
| `DecodeService` | what `FileDecode` promises | abstract specification |
| `ArchiveHandle` | `FileDecode` by several threads, `OpenArchive`, `CloseArchive` | composes `DecodeCache` and `SolidBlock`, implements `DecodeService` |
| `ArchiveListing` | `GetArchiveInfo` and the vector of files | component |
| `ArchiveLife` | allocations of `OpenArchive`, `SzArEx_Open` and their failure paths | component |
| `PluginEntry` | the exported functions and `DllMain`, the global object | component |
| `SzFolders` | `ReadUnpackInfo` and `SzGetNextFolderItem`, the two parsers of folders | component |
| `SzStreamInfo` | `SzReadStreamsInfo`, `ReadSubStreamsInfo` and the second reading of their lists | component |
| `SzFilesInfo` | the file properties: bit vectors, names, times, attributes | component |
| `SzFileTable` | the loop of `SzReadHeader2` that builds the tables `SolidBlock` assumes | algorithm, stepwise |
| `ByteStream` | what a look stream promises | abstract specification |
| `LookStream` | `LookToRead2` over a file and `LookInStream_Read2` | implements `ByteStream` |
| `FolderDecode` | `SzAr_DecodeFolder`, `SzFolder_Decode2`: coders, buffers, packed streams | component |
| `Bcj2Merge` | what BCJ2 decoding promises | abstract specification |
| `Bcj2Decoder` | `Bcj2Dec_Decode` inside the output buffer | implements `Bcj2Merge` |
| `LzmaStreams` | LZMA and LZMA2 streams as decoders see them | constants |
| `LzmaDecoder` | `LzmaDec_DecodeToDic`, `LzmaDec_DecodeToBuf` | component |
| `Lzma2Decoder` | `Lzma2Dec_DecodeToDic`, `Lzma2Dec_DecodeToBuf`, `Lzma2Dec_Parse` | component |
| `MtCoder` | `MtCoder.c`: encoding of blocks by several threads | component |
| `MtDecoder` | `MtDec.c` with the callbacks of `Lzma2DecMt.c` | component |
| `MatchFinderMt` | `LzFindMt.c`: three threads, two rings, a window that moves | component |
| `LzHash` | hash functions, wrapping references, what a match is | operators |
| `MatchFinder` | `LzFind.c`: window, hash chains, binary trees | component |
| `MatchTree` | the data that flows through the threads of `LzFindMt.c` and `LzFindOpt.c` | component |
| `LzmaEncoder` | `GetOptimum`, `GetOptimumFast`, `LzmaEnc_CodeOneBlock`, the chunks of `Lzma2Enc.c`, and a decoder that reads along | component |
| `RangeCoder` | the range encoder of `LzmaEnc.c` and the decoder of the format | component |
| `Bcj2Encoder` | `Bcj2Enc_Encode` | uses `RangeCoder` |
| `MCArchiveHandle` | a small archive | instance |
| `MCPlugin` | `ArchiveListing`, `DecodeCache`, `ArchiveLife`, `PluginEntry` | parts |
| `MCHeaders` | `SzFolders`, `SzFileTable` with small headers, `SzStreamInfo`, `SzFilesInfo` | parts |
| `MCStreams` | `LookStream`, `Bcj2Decoder`, `FolderDecode` | parts |
| `MCLzma` | `LzmaDecoder`, `Lzma2Decoder` | parts |
| `MCThreads` | `MtCoder`, `MtDecoder`, `MatchFinderMt`, and the small archive of `MCArchiveHandle` for liveness | parts |
| `MCEncoders` | `MatchFinder`, `MatchTree`, `LzmaEncoder`, `RangeCoder`, `Bcj2Encoder`, beside those of `MCStreams` | parts |
| `ArchiveHandle_proofs` | about `DecodeCache` and `ArchiveHandle` | proofs |
| `Plugin_proofs` | about `ArchiveListing`, `ArchiveLife`, `PluginEntry` and their composition `MCPlugin` | proofs |
| `Streams_proofs` | about `LookStream`, `Bcj2Decoder`, `FolderDecode` and their composition `MCStreams` | proofs |
| `Lzma_proofs` | about `Lzma2Decoder` | proofs |
| `Headers_proofs` | about `SzFolders` and its place in `MCHeaders` | proofs |
| `Tables_proofs` | about `SzFileTable` and its place in `MCHeaders` | proofs |
| `Lists_proofs` | about `SzStreamInfo`, `SzFilesInfo` and their place in `MCHeaders` | proofs |
| `Threads_proofs` | about `MtCoder` and `MatchFinderMt` | proofs |

In an MC module with *parts* a variable `part` says which module runs; the
variables of the others stand still. The parts of one run do not interact: they
are checked side by side.

Definitions whose comment calls them a slip are plausible mistakes in the
code; they are used only to show that the properties notice them.

### ArchiveHandle

`pc[t]` says where thread `t` is in `FileDecode`; one action is one stretch of
code between two C calls that another thread could get in between of if the
critical section were not there. `find`, `extract`, `decode`, `slice`, `insert`,
`create`, `write` are the stages; `giveup` is the early return after a failed
extraction, `fail` the error path of `extractToMemory` before it. `cs` is the
owner of the critical section; `CsLock`'s destructor is `Leave`. `heap` maps an
address to the bytes it holds or to `Free`, so a use of freed memory and a
buffer with wrong bytes are both visible. A decoder that fails leaves
`BadByte`s; an archive has entries whose CRC does not fit (`Damaged`), entries
without a CRC, empty entries, blocks that exceed a `size_t`, and the host may
ask for an index that does not exist. `OpenArchive` and `CloseArchive` are
single steps here; `ArchiveLife` cuts them up.

The model assumes what the headers of `AX_PlugIn.h` ask of the host: it does not
close a handle while a call is in it, and does not ask for index `(UInt32)-1`.
A buffer is taken to be as large as the entry listed for it. In file mode the
code allocates `nSize`, a 32-bit size the host passes, or 4096 bytes if that is
0 (`7zPlugin.cpp:392`), and `extractToMemory` copies the entry without a look at
the size (`7zArchive.cpp:215`); capacities are not modelled.

### DecodeCache

The array is a function from slots, the stamp counter runs modulo `SeqMod`.
`Use(i)` is one decode: find, and insert on a miss. `StampOrder` turns the
stamps of the entries into the relation "used before", which is the refinement
mapping to `LruPolicy`.

### ArchiveListing

The vector is `files` (elements), `store` (address of its storage) and
`capacity`; growth beyond the capacity moves it to another address. Which
entries are directories and which have names too long for `getEntryInfo` is
arbitrary. `Serial` says whether the host has one `GetArchiveInfo` in flight
at a time.

### ArchiveLife

`heap` is the set of allocated addresses, `ptr` what each owner's pointer
holds: pointers that dangle after a failure keep their value, as in the code.
`free` of an address that is not allocated sets `fault`. The allocator may
return any free address, also one that was just freed. `SzArEx_Free` frees the many
tables of `CSzAr` and `CSzArEx` by their pointers; here they have five owners: `db` for those of
`CSzAr`, `names`, `mtime` and `ctime` for the properties of the files, `index` for those
`SzReadHeader2` builds at its end. A header may hold a property any number of
times, and `FileTable` may run again for the same owner: it overwrites the pointer, with
`NULL` if the allocation fails. `lost` is history: the addresses whose only
pointer went this way. `NothingLeft` and `HandleUsable` say that nothing but
those is left and that the owners hold all else; `AllFreed` says that nothing is
left at all, which the code does not keep (`life_repeats`).

### SzFileTable

The variables of the loop are the fields of `at` and `mask`; the tables are
`db`, whose unwritten cells are `Junk`. A header is a record of the lists that
were read before; its shape is what `ReadSubStreamsInfo` lets through (`SzStreamInfo`). The
reference it is checked against (`FolderOfStream`, `OffsetOf`, `SizeOf`,
`CrcOf`) is a direct reading of the format: the k-th entry with data takes the
k-th stream. Byte width and 64-bit wrap-around are constants (`ByteBits`,
`U64`).

### LookStream

`pos`, `size` and `buf` are the fields of `CLookToRead2`, `fpos` is the position
of the file handle behind it, which is ahead of the stream's by what is in the
buffer; the stream's own position, `fpos - Ahead`, is kept nowhere in the code
and is the refinement mapping to `ByteStream`. `Look` is `LookToRead2_Look_Exact`
(the archive is opened with `lookahead = 0`). `File_Read` delivers fewer bytes
than there are only with an error. `ReadMore` is one round of the loop in
`LookInStream_Read2`: from the buffer while it has bytes, then from the file.
Clients call `Skip` only for bytes `Look` has shown them, as the SDK does, and
`SZ_SEEK_CUR` only on a stream nobody has read from.

### FolderDecode

`pc` and `ci` say where `SzFolder_Decode2` is; `buffer`, `limit`, `made` are
`outBufCur`, `outSizeCur` and what the coder has written, `si`, `at`, `inSize`
the packed stream it reads, `temp0` to `temp2` the buffers of `tempBuf`. `Look`
and the chunk actions are the loops of `SzDecodeCopy`, `SzDecodeLzma` and
`SzDecodeLzma2`; a decoder takes and writes any number of bytes and reports any
status. `source` is history: which coder has filled a buffer, and how far.
Folders are those `SzGetNextFolderItem` lets through (`WellFormed`; that it lets no others through is `GraphSound` of `SzFolders`, a theorem). Sizes are
those of a header and may exceed `SizeMax`, the largest `size_t`; buffers that
live together fit into the address space together (`Used`). PPMd is not in
the build (`Z7_PPMD_SUPPORT` is not defined).

### Bcj2Decoder

One call of `Bcj2Dec_Decode`, as `SzFolder_Decode2` makes it: `out` is the output
buffer, whose end is the main stream; `src` and `dest` are positions in it. The
range coder's decisions are arbitrary, its consumption of bytes is kept. `ip`
counts what has been written; `Absolute(w, p)` is the four bytes of word `w` at
`p`. The copying loop moves one byte per step (`Copy`), the code four without a
test in between. What the code keeps in `temp` to resume a call is not modelled,
because there is no second call. `due` of `Bcj2Merge` is a marker that waits for
its word: the merge may only end without one.

### PluginEntry

`g_p7zPlugin` is the global pointer, `live` the objects that are allocated,
`info` the information block the host keeps, which lies inside the object.
`AMP_Init` tests and creates in two steps (`InitTest`, `InitNew`); a call is
`Enter` and `Leave` with the object it runs in. `SerialInit` says that the host
calls `AMP_Init` from one thread at a time: without it two objects are made, of
which one is lost. `DllMain` unloads only when no call is inside.

### SzFolders

The bytes of the header are chosen as `ReadUnpackInfo` (`scan`) reads them and
are kept in `data`; `SzGetNextFolderItem` (`item`) reads them again. Numbers are
below 128 and take one byte. `ar` is what the first reading leaves in `CSzAr`
per folder: where its bytes begin, its first packed and unpacked stream and its
main output. `FoldersAgree` says that both readings end at the same byte with
the same counts; `GraphSound` that an accepted folder gives every input one
source and leaves one output. The limits of the two functions differ in the code
and are constants here (`CodersMax`, `ScanCodersMax`, ...).

### SzStreamInfo

Three lists of the header are kept as slices and read again entry by entry:
`sdNumSubStreams`, `sdSizes` and `sdCRCs`, the last two without a test of their
end. The bytes of `ReadSubStreamsInfo` are kept in `bytes`; `loc` holds the
locals of both readings. The first reading skips numbers by their first byte
(`SkipNumbers`), the second decodes them (`ReadNumber`); numbers come in
encodings of one, two and nine bytes.

### SzFilesInfo

The loop over the properties of the files: each may come in any order, more
than once, or be missing; each may hold its vector or refer to one of the
external buffers. `p` is what ends up in `CSzArEx`, `empty` the vectors of the
empty entries, `names` the units of the names and their offsets. Behind it the
loop over the entries reads the vectors at indices nobody checks
(`FilesInfoExact`).

### LzmaDecoder

A stream is a sequence of symbols; each takes some bytes and says which text it
adds: what the range coder makes of its bytes is the stream's business, all
control is the decoder's. `dec` is `CLzmaDec`: `remainLen` with its values for
the start and the end, `tempBuf`, the dictionary as a ring, `processedPos`,
`checkDicSize`, `reps`. `src` is how far the caller's pointer has come, `sym` how
many symbols are decoded. A call (`call`) gets any room and any of `Offers`
bytes and either finish mode, and then runs by itself. `out` is everything the
caller has been given; `OutputExact` compares it with the text of the symbols,
`StateExact` says that a stop between two calls loses nothing, `VerdictExact`
that result and status say what the stream says.

### Lzma2Decoder

The automaton of chunk headers is modelled byte by byte (`UpdateState`). A
chunk's data is given by `yield`: how many bytes the symbols in its first *k*
packed bytes bring; what the LZMA decoder does inside it is `LzmaDecoder`.
`probs` is history: whether the probabilities fit the properties.
`Lzma2Dec_Parse` uses the same automaton without decoding and stops in front of
the chunks that could be decoded without those before them.

### MtCoder

`coders` are the threads with their place in `ThreadFunc2`, `blocks` the ring of
`CMtCoderBlock`s, `freeBlocks` the list of output buffers, `mtc` the numbers and
results every thread sees. A thread owns `readEvent` while it reads; whoever
finishes block `writeIndex` writes it and every block of `ReadyBlocks` behind
it. Reading, coding, writing, allocation and creating a thread may fail, up to
`CodeFaults` times. `written` is the output as pieces of the input. Failures of
events, locks and semaphores are not modelled.

The end of `ThreadFunc` is three steps: `Finish` counts the thread in
`numFinishedThreads`, `Compare` reads `numStartedThreads`, which no lock guards,
and `SetFinished` sets the event. `ending` says which of them a thread still has
before it. Between them the caller may return and make its next call, which sets
both numbers anew (`CallCode`); `late` is history and says that a call was made
while a thread was not back at `startEvent`. Such a thread may end that call
(`mt_late`), so `CoderExact` is about the calls before one. After an error
`FreeThreads` ends the threads as `MtCoder_Free` does.

### MtDecoder

Thread 0 is the caller. `canRead` goes round the threads: its owner fills
buffers of its own with tokens of the stream until the parser has found the end
of a block. `canWrite` goes round behind it. A block that cannot be decoded this
way (no memory, no thread, too large, cut off) interrupts the round; what was
read is kept in `workers` and read again, in order, by the single-threaded
decoder (`single`). A stream is a sequence of tokens: `n` is the control byte of
a chunk that resets the dictionary, `d` and `D` are chunks, of which `D` is too
large for a block, `b` is a chunk that cannot be decoded, `x` a control byte that
is not allowed, `e` the end mark.
`output` lists the positions whose text was written.

### MatchFinderMt

The hash thread reads the stream into the window and moves it, the BT thread
walks the tree, the caller takes the matches. Between two of them is a ring
(`hashBuf`, `btBuf`) with two semaphores and a critical section (`syncs`).
Moving the window takes both sections and adjusts the pointers of both other
threads; `FinderExact` says that no pointer or block refers to bytes the window
has lost, that blocks are consumed as they were filled, and that stopping and
starting again leaves the semaphores right.

### MatchFinder, MatchTree

Positions are numbers modulo `Width` and are reduced (`Reduced`) before they
wrap. `mf` is `CMatchFinder` with its window, whose cells nobody wrote are
`Junk`; input comes in steps, at once, or fails. Hash functions are abstract but
keep what the comments of `LzFind.c` ask of them. `MatchTree` has the three
stages of the threaded finder take turns over the same files; each counts
positions of its own and wraps them on its own. Each of the two finders is
compared with its own data, not with the other: its pairs are matches, in order
and within the history, and the last is the longest match there is where a tree is
searched to its end (`cut` above the history).

### LzmaEncoder, RangeCoder

`GetOptimum` is modelled with its table `opt`, its early ends and the plan that
outlives the call; prices are numbers that depend on what the code's prices
depend on, made from `seed`. `owed` is the price the plan promised.
`LzmaEncoder` turns the plan into symbols with their contexts and into chunks,
packed or copied; when a chunk does not pay, the saved state is restored.
`decoded` is a decoder that reads along: it has to come to the same contexts and
the same text. `RangeCoder` is the arithmetic alone: bytes have four values, so
carries through bytes held back are frequent.

### Bcj2Encoder

`bj` is `CBcj2Enc` with its four streams; `branch` says how much of the input was
given, in which pieces and with which room. `temp` holds the bytes that are not
decided. The property merges the streams again the way the decoder of the
format does and compares the result with the input.

## 3. Runs

| run | asks | instance |
|---|---|---|
| `handle` | are caches, ownership and answers right under concurrency and failure? | 2 threads, 2 slots, 3 blocks, 5 entries and an unknown one, 4 addresses, stamps modulo 2 |
| `plugin` | is the listing exact; do slots and stamps implement LRU; what is left of an archive whose opening failed; is the object of a call alive? | 3 entries, 2 threads, one listing at a time; 3 slots, 4 indices, 7 uses, no wrap; 7 addresses, headers that may repeat a property; 2 objects, 2 threads |
| `headers` | does the second reading of a header find what the first measured; do the tables place entries as the format says, and inside their block whatever the header says? | 2 folders of up to 2 coders; lists of 2 folders and 2 packed streams; 2 entries, 3 properties, 4 units of names; tables of 2 folders, up to 3 streams each, 4 entries, sizes 0, 2, 5, which wrap a 64-bit position (`TableU64 = 6`), or one size and every set of flags |
| `lzma` | do text, consumed input and verdict depend on the stream only? | streams of up to 4 symbols, good and bad, dictionaries of 2 and 5, a ring of 3; streams of 2 to 4 chunks; 0, 1, 3 or all bytes per call |
| `threads` | do many threads produce what one would, and does every call return, of the plug-in's `FileDecode` too? | `MtCoder`: 2 threads, blocks of 1, inputs of 0, 1, 2, 4 and a second, empty one, 1 failure; for liveness 2 and then 1; `MtDecoder`: 3 threads, buffers of 2 tokens, 7 streams, 2 calls, 1 failure; `MatchFinderMt`: 2 hash blocks of 3, one BT block of 9, streams of 3 and 25 bytes, 2 starts; the archive of `handle` with 2 threads, 1 slot and 3 addresses |
| `data` | what is read: is the buffered stream one stream of bytes, is merging in place merging, is each coder wired to its streams and buffers, is all freed, do the loops end? What is written: are matches in the data, do decoders read what encoders write? | a file of 3 bytes, a buffer of 2, requests up to 4; main streams up to 3 bytes of 5 kinds, up to one word per word stream, range coder streams of 0, 3, 5, 6, 8 bytes; folders of 1, 2 and 4 coders, `SizeMax = 31`, chunks of 2 bytes; 24 files of 15 bits, 8 kinds of finder, history 3, positions modulo 12 and 30; 128 inputs of 18 bits and two tiny ones, plans of 6, 8, 12 cells, 3 price seeds; 8 coded bits in base 4; BCJ2 pieces of 1, 3 or all bytes, rooms of 1 or 3 |
| `lru_wrap` | is the entry of the last decode kept beyond the wrap of the counter? **No.** | 3 slots, 4 indices, a counter that wraps at 5 |
| `listing_race` | is a listing exact with two calls at once? **No.** | 2 entries, 2 threads |
| `file_unused` | are listed sizes right when an unused folder has a size? **No.** | 2 folders, up to 2 streams each, 3 entries, sizes 0 to 2 |
| `mt_write` | is a failed write reported? **No.** | as `threads` |
| `mt_late` | does `SZ_OK` mean the whole input, in every call? **No.** | `MtCoder`: 2 threads, blocks of 1, two inputs of 2, no failures |
| `life_repeats` | is a closed archive free of allocations, whatever its header? **No.** | 5 addresses |

Why the bounds are enough to meet the cases. With 2 slots and 5 entries the
cache fills, hits and evicts; two threads are enough for every pairwise
interleaving (the proofs cover any number); three blocks hold a good one with two
entries, a damaged one and one that is too large. `ByteBits = 2` puts entries on
both sides of a flush; with 2 folders each kind of folder precedes and follows
each other kind, and 2 coders are enough for a bond, a bad bond and a cycle. The
file of `data` ends inside a buffer and before a request; its folders have
sizes that fit, that do not, that fit only modulo a `size_t`, and that no `size_t`
holds; its words contain markers and end in the first half of one. The ring of
`lzma` is smaller than the text, so that it wraps in the middle of symbols; bytes
are offered one at a time, which cuts every symbol anywhere. In `threads` there
are more blocks than threads and places, so the rings go round; three threads are
the fewest with one reading, one decoding and one writing. Failures are
limited to one per run: behind the first one nothing more is begun. Positions
of `data` wrap within every file, and its plans are shorter than the
inputs, so that they end early. `MaxSeq` bounds the number of decodes; in
`handle`, `SeqMod = 2` makes the stamps wrap all the time, because no property
of that run depends on the order of eviction. Thread and address symmetry is
used in `handle` only, where no liveness is checked. Runs whose system really
ends (a stream is read, a call has returned) say `CHECK_DEADLOCK FALSE`;
`ThreadsReturn`, `Terminates` and `CallsReturn` see to it that no thread waits for ever.

### Divergences shown

* **lru_wrap.** `7zPlugin.cpp:36` calls the stamp "monotonic"; it is a
  `uint32_t` and wraps. An entry used behind the wrap has the smallest stamp: the
  run shows a full cache in which the next decode evicts the entry of the decode
  just before and keeps the two that were used earlier.
* **listing_race.** `GetArchiveInfo` uses the shared vector of a handle without
  its critical section, although `README.md:17` and `7zPlugin.cpp:23` call the
  handle thread-safe. Two calls at once list entries twice.
* **file_unused.** The size of a folder without streams is added to the running
  position after the position of the current entry has been stored
  (`7zArcIn.c:1348`, `1385`), so `getEntryInfo` reports wrong sizes for the
  streams of the next folder if it has several. Archives usually have no such
  folder; `EntriesExact` and `WellFormedAccepted` leave it out (`UnusedEmpty`).
* **mt_write.** `Lzma2DecMt.h:35` lists `SZ_ERROR_WRITE`, "ISeqOutStream write
  callback error". The write of the multi-threaded decoder stops the threads,
  but its result is stored nowhere: `Lzma2DecMt_Decode` returns `SZ_OK`
  (`Lzma2DecMt.c:927`).

* **mt_late.** A thread of `MtCoder` counts itself as finished
  (`MtCoder.c:350`) and reads the number of started threads afterwards (351). If
  another thread ends the call in between and the caller makes the next one, the
  first thread may take that call's 1 started thread for its own count of 1 and
  signal its end: `MtCoder_Code` returns `SZ_OK` ("OK", `Lzma2Enc.h:31`) with
  nothing written and its thread at work. With one call per object it cannot
  happen.
* **life_repeats.** `7zC.txt:142` has `SzArEx_Free` free what an open archive
  allocated. A header that holds its names, or one of its times, twice makes the
  property readers overwrite the pointer to the first table (`7zArcIn.c:1229`,
  1067, 1082), which nothing frees then.

### Fairness

`threads` assumes of each part that some thread that can go on does
(`ThreadsGo`), not which one, and not that the caller begins another call. That
is all Windows has to give: `ThreadsReturn` holds because nobody waits for what
nobody will do, not because of an order in which threads run. Of the SDK's parts it is
checked for the inputs marked `live`, which are smaller; those of `MtCoder` make
two calls. In `FileDecode` one thread at most is inside the critical
section, and *some* waiting thread gets a free one, not each: a critical section
is no queue, so a single call may starve, and `ThreadsReturn` only says that
calls return while calls wait. A `WriteFile` that succeeds with 0 bytes is a
stuttering step; the fairness thereby assumes that writes make progress in the
end, which the loop in `FileDecode` relies on too.

`data` and `lzma` assume that the one thread in a call goes on (`WF` of
`FolderNext`, `LzmaRun`, `Lzma2Run`); that another call is made is not assumed.

The other runs check safety only.

## 4. Proofs

| theorem | says | assumes |
|---|---|---|
| `ArchiveHandle_proofs!CacheSafety` | no index is cached twice | the constants' assumptions |
| `ArchiveHandle_proofs!CacheIsLru` | the cache implements `LruPolicy` | `MaxSeq < SeqMod`: the counter does not wrap |
| `ArchiveHandle_proofs!HandleSafety` | types, mutual exclusion, both caches valid, no duplicates, every allocation owned once | the constants' assumptions |
| `ArchiveHandle_proofs!CachesStayValid` | both caches and the pointers threads hold stand for live memory with the right bytes | the same |
| `ArchiveHandle_proofs!HandleImplementsService` | `FileDecode` implements `DecodeService` | the same |
| `Plugin_proofs!LifeSafety` | whatever the header holds and wherever an opening breaks off, nothing is freed twice and nothing is left but tables whose pointer a repeated property overwrote; an open archive owns all else and all it points to | `Null` is no address |
| `Plugin_proofs!ListingSafety` | listings are exact, pointers good | `Serial` |
| `Plugin_proofs!PluginSafety` | the same of the parts of `MCPlugin` together: listing, pointers, ownership, the global object | `Serial`, for `AMP_Init` too |
| `Streams_proofs!FolderSafety` | each coder reads the stream its bond or pack position names, success means the whole folder, nothing is left in memory | the constants' assumptions |
| `Streams_proofs!StreamSafety` | what `LookInStream_Read2` delivers is consecutive | the same |
| `Streams_proofs!StreamRefinement` | `LookStream` implements `ByteStream` | the same |
| `Streams_proofs!DecoderSafety` | the writer stays behind the reader, no word is cut short | the same |
| `Streams_proofs!DecoderImplementsMerge` | `Bcj2Decoder` implements `Bcj2Merge` | the same |
| `Streams_proofs!FoldersDecoded` | `FolderSafety` in the composition `MCStreams` | the same |
| `Lzma_proofs!ChunkSafety` | the LZMA2 readers stay in step with the chunks, write their text in order without a gap, use only probabilities that were set up, and return what the stream deserves | the same |
| `Headers_proofs!FoldersSafety`, `HeadersFolders` | both parsers of folders agree, every input of a folder's graph is fed once, every coder but the main one is bound, properties lie in their folder; in `SzFolders` and in the composition `MCHeaders` | `LimitAssumption`: what the second parser admits, the scan does; numbers are below 128 |
| `Tables_proofs!TableSafety` | the tables of an accepted archive are filled in, and every entry lies inside the block of its folder | `TableAssumption`: sizes are below 2^64, numbers are natural |
| `Tables_proofs!IndexSafety` | of an accepted archive the index says what the header says: each entry with data has the folder, place, size and CRC of its stream, the bits say which entries are directories and have a CRC; a header that agrees with itself is accepted | the same; a byte has at least one bit |
| `Lists_proofs!FilesSafety` | the vectors of the file properties have a value for every entry they are read for, names end inside their bytes, values come from the bytes of their own property | `FilesAssumption`: the bounds are natural |
| `Lists_proofs!InfoSafety` | the second reading of the streams' counts, sizes and CRCs never lacks a number and leaves none, it reads exactly the CRCs of its slice, the packed streams lie in order within the packed data | `InfoAssumption`: the encodings are those of the format, sums are taken modulo a number above the largest |
| `Threads_proofs!CoderSafety` | as long as each call begins with the threads of the one before back at `startEvent` (without that it is false, `mt_late`): blocks are written in order without a gap; success means all of the input and no thread at work | the constants' assumptions |
| `Threads_proofs!FinderSafety` | a thread with the lock of its ring finds its byte and its history in the window; every position is delivered once, in order and with enough bytes; the threads can be started again after `ReleaseStream` | `FinderBounds`: what `MatchFinderMt_Create` asks of the sizes |

**DecodeCache.** `NoDuplicates` is inductive with the type invariant. The
refinement needs `StampInv` as well: the stamps of used slots are below the
counter and pairwise different, so the counter's next value makes an entry the
newest and the strict comparison of the victim scan finds the one oldest entry.
Two counting lemmas (`FullCache`, `RoomInCache`) match the code's "there is an
empty slot" with the policy's "there is room". Without the bound on the counter
`StampInv` fails; what comes of it is `lru_wrap`.

**ArchiveHandle.** The inductive invariant is `TypeOK`, `MutualExclusion`,
`BlockCacheValid`, `StoreInv` (cache contents, ownership, and that a closed
handle owns nothing) and, for every thread, `ThreadInv`: what is known at its
place in the code. It says for instance that a thread at `insert` holds the bytes
of its entry and that its index is still not cached; that one is not implied by
`CacheMiss` at `find` alone, but by the lock having been held since. One
lemma per action shows that it is kept; `OutsiderKeeps` and `BystanderKeeps`
dispose of the other threads. The refinement uses the invariant at the one step
where an answer becomes visible, `Leave`.

**Plugin.** The four parts of `MCPlugin` share no variable, so their invariants
hold side by side; `PluginSafety` states them of the composition the run checks.
Of the listing: the invariant adds that at most one thread is inside, that
`files` is the list of visible entries below `srcIdx`, that there is room for
all of them once `reserve` has succeeded (a counting argument: listed entries
are at most `fileCount`), and that what was published is the present vector.

**ArchiveLife.** `Owned(Counted)` says that the heap is exactly the set of
addresses the owners hold and the `lost` ones, and that no two owners hold the
same and none a lost one. It holds of all
owners, except between a failed opening and the deletion of the handle, when
`lookStream_.buf` dangles: then only the handle counts (`Counted`). `MayHold`
and `MustHold` say of each place in the code which owners have nothing yet and
which have something; the former make an allocation overwrite no pointer, except in `FileTable`, where
`TableOwned` moves what it overwrites to `lost` (`TableKeeps`); the latter make the frees of `EncodedDone` free what is there. `AllocKeeps` and
`FreeKeeps` do the counting once; each action then only says whom it concerns.
That the destructor finds nothing left is `DeleteFrees`.

**FolderDecode.** The inductive invariant `IInv` says, for every place in
`SzFolder_Decode2`: the folder has one of the three shapes `CheckSupportedFolder`
lets through (`FolderRight`); the running coder has the buffer and the packed
stream that are its own (`PlaceRight`); it reads inside that stream, and a coder
that copies has as much left to read as to write (`InputRight`); the buffers fit
into the address space together and have the sizes of the coders behind them
(`SpaceRight`), so that the wrapped sum the code tests (`SizesFit`) is the sum;
and the coders that are through have filled their buffers (`SourceRight`).

**PluginEntry.** The invariant says that `live` is what the global pointer
points to, that a thread between the test and the creation is alone there and
the global pointer still null, and that a thread inside a call has the one
object as its `this`, in a DLL that is loaded.

**LookStream.** The invariant says that what is in the buffer between `pos` and
`size` are the bytes of the file in front of `fpos` (`AheadInv`), and that a
read under way stands where its destination ends (`ReadInv`). `LookShows` turns
the first into "what is read ahead are the bytes at the stream's position",
`SlicesJoin` appends a round of the loop to what was read before.

**Bcj2Decoder.** `src - dest` is four bytes for each word to come, from the test
of the sizes on (`WriterBehindReader`). So a word always has room and the bytes
the reader has not seen are never written, which is all the refinement needs:
`CopyMaps` and `WordMaps` show that a step in the one buffer is a step on the
streams apart. `PlaceInv` and `PhaseInv` add where the reader, the writer and
the last byte are in each state; with them `state = MAIN` says that no marker is
waiting.

**Lzma2Decoder.** `Lzma2Inv` says that there is a chunk *i* the input stands in
(`At`) and, for every state of the automaton, at which byte of it and what the
two counters hold (`Stage`); what `needInitLevel` demands of the next control
byte (`Levels`); that the chunks passed were right (`Passed`); for a decoder
(`Decoded`) that the output is the text of the chunks before *i* and the first
bytes of that of *i*, and that the LZMA decoder has gone neither past an end mark
nor past the place where it should have found its end (`Seen`); for a parser
(`Parsed`) that its count is the size of that text. The last one is what makes the
invariant inductive: without `Seen` a chunk that is cut into pieces could be
accepted although it is refused in one piece. `PieceRight` does the work for
`LzmaDec_DecodeToDic`: a piece that leaves the chunk whole means `DataOK`, and one
that gets stuck means that it does not hold. What `Places`, `Need`, `TextOf` and
`Reach` compute for any stream is proved by induction: `Induction` and
`Recursion` follow from the well-foundedness of the natural numbers
(`LeastNatural`), stated for sets instead of predicates.

**SzFolders.** The two parsers never meet, so the invariant cannot compare their
variables; it compares each with the bytes. `Layout` says, without any parser,
that a stretch of bytes is a folder: the coders one behind another (`Walk`: where
each begins, how many inputs those before it have), the bonds, the packed
streams and the output that is left. `ScanInv` says which part of a layout
`ReadUnpackInfo` has behind it at each of its places (`ScanPlace`), and that every
row of its tables stands for a whole one (`Rows`). `Prefix` lemmas show that bytes
read later change nothing in those read before. `ItemInv` says that
`SzGetNextFolderItem` stands at some place of the layout of its row with the same
sets of used streams (`ItemPlace`), so the checks it shares with the scan
succeed and those it makes alone end in `SZ_ERROR_UNSUPPORTED`. That the graph is sound
at the end is a count: the bonds name one input and one output each, none twice
(`BondCounts`), the packed streams the inputs that are left (`PackCounts`), and a
set of as many numbers below *m* as there are has all of them (`AllOf`). A folder
with one packed stream names none; there the input left over is the only one
(`LastInput`). `ItemInv` speaks of functions on the bytes that TLC cannot enumerate, so
it is not an invariant of a run; `GraphSound` and `FoldersAgree`, which it implies, are.

**SzFileTable.** What the reading functions let through is `HeaderShape`; that the
headers of the runs have it is `ListsShaped`. `TableInv` says of every place of the
loop which positions are in the table (`Placed`) and which folders have their first
entry (`Opened`); that positions grow up to where the reading stands
(`PositionsGrow`); and that an entry belongs to a folder that began at it or before,
and ends within its size once the loop has left that folder (`EntriesInside`). That
a sum does not wrap is what `sum < size` tests (`AddFits`); that the entries of a
folder *before* its last are inside it as well follows only from the last one,
because positions grow. What all steps have in common is one predicate,
`TableMoves`, and the invariant is proved once from it. `TableInv` was checked with
the bounds of `headers` before it was proved.

`IndexSafety` adds `ExactInv`, in three parts. `PlacesInv` compares the loop's
counters with sums over the header: as many streams were passed as lie in the
folders before this one and in this one so far, and the next size, digest and
empty-file bit are those of the next entry (`ReadingExact`). The counters run
apart, because the size of a folder's last stream is not stored and neither is the digest of
a folder's only stream if the folder has a CRC; each has a sum of its own. From that, every entry
that is through has the place and the size of its stream (`PlacesExact`). If the
header agrees with itself, no folder begins later than the folders before it end
(`StartsExact`), so that no sum wraps. `BitsInv` says where the byte that is
collected in `mask` belongs (`BytesPlace`: the first bit it lacks in the tables
begins a byte), and that each entry's bits are right in the tables or in `mask`
(`BitsExact`). `AcceptedInv` is that a header that agrees with itself has not been
refused; it needs the other two, because each of the loop's checks compares a
counter with a list's length or a sum with a folder's size. The header's sums are
written with `MapThenSumSet`, which folds a set in an order of its own: the first
section of this part shows that this comes to the same for any order
(`FoldRemoves`), so over the folders below *n* it grows by one folder's number at
a time. `ExactInv`, in a first form, was an invariant of a run with the bounds of
`headers` before it was proved.

**MtCoder.** The ring is the argument. Of the places behind `writeIndex` the
first *k* are taken; each is owned by one thread or by `ReadyBlocks`, no two by
the same, and each has an output buffer of its own; the pieces in them follow
one another from the end of what was written to `readProcessed`. Hence whoever
holds the first of them may write it, and the ready ones behind it, and leaves a
ring of the same form. A second part ties errors to flags: a thread that failed
has set `progressRes` or `stopReading`, so that success at the end means nobody
failed and the reader came to the end of the input. A third counts: threads
that are neither asleep nor leaving are `numStarted - numFinished`. The counts of the threads
in `ending` are pairwise different, and the one whose count is `numStarted`
is the last, so whoever signals `finishedEvent` is; all this is claimed while
`~late`, when the numbers a thread reads are those of its own call.

**MatchFinderMt.** Two rings again, but here no block is ever written twice: the
argument is how far the threads are apart. `Phases` and `Locks` (together
`Control`) say who may be running and who holds which critical section; they are
inductive by themselves. On top of them, `HashSide` and `BtSide` describe the live
blocks of each ring, counted from the one its reader holds: `free` and `filled`
count them (`HashPlaces`, `BtPlaces`), each begins where the one before ends, and
the last one ends where the writer stands (`HashChain`, `BlockChain`). `Cur` is the
position the tree thread is at, which is `bt.pos` except that `BtFillBlock` does not
move `bt.pos` over the last bytes of a stream; blocks made after the end are
empty. As a block of the hash ring covers at most `HashBlockSize` positions and one
of the tree ring at most `BtBlockSize`, the hash thread is at most
`HashBlocks * HashBlockSize` in front of the tree thread (`HashAhead`) and that one
at most `BtBlocks * BtBlockSize` in front of the caller (`BtAhead`). `KeepBefore` is
the sum of both and the history, so `HashMove` leaves what either may still look at
(`Kept`); without the lock-step of both pointers with `window.base`
(`WindowSound`) that would not be enough. Enough bytes for the longest match are
there because `ReadBlock` reads more than `KeepAfter` or all there is
(`ReadEnough`). Both sides are claimed only while the threads work for the caller
(`Active`, `Serving`): after `ReleaseStream` the rings hold leftovers that
`MatchFinderMt_InitMt` resets. Most steps touch one side only; `HashSame` and
`BtSame` carry the other side over. The invariant was checked with the bounds of
`threads` before it was proved.

**SzFilesInfo.** `FilesInv` says of each vector of `p` that it is missing or was
filled by a whole reading (`ReadValues`, `EmptyStream`, `EmptyFile`), whatever
came before, and of the names how far they are split: the offsets so far grow,
each but the first stands behind a zero, and when all names are through the last
one is the length of the bytes (`NamesEnd`). That the flags of the empty entries
suffice is counting: the loop over the entries has met as many empty ones as the
bits below the present entry, and `EmptyFile` made a flag for every bit.

**SzStreamInfo.** That the second reading agrees with the first is about two walks
over the same bytes, so `InfoInv` keeps the walk: a function with the place of each
number of a slice (`Walk`), the sums of entries, stored sizes and CRCs up to each
folder (`Steps`), and what a count says of the place behind it (`Adds`). The first
reading makes them one longer with each number it skips (`CountsGrow`, `SizesGrow`),
so no induction over a slice is needed: each step extends the functions by one place
(`More`). The second reading stands at one place of all of them (`Reads`): in folder
`k`, `Behind` entries after its begin. So the next count is there (`NextCountIs`), a
size is stored for every entry but the last of a folder (`Stored`), and the CRCs that
were used are those of the bits below `digestIndex` (`ValsAt`). `EntryCrcs` is why they
stay in the slice although nothing tests it. `PacksInside` needs only that a sum smaller
than its summand has wrapped.

The assumptions on constants are named in the module that declares them and are
evaluated by the runs. The most important is `DbAssumption` (in `SolidBlock`): the
tables of an open archive locate each entry inside its block. That the header
reader establishes it is `InsideBlock`, which is proved (`TableSafety`), and that each
entry also has the size and the CRC the header says is `EntriesExact`
(`IndexSafety`). The shape of folders `FolderDecode` rests on is `GraphSound`,
which is proved.

**Only model-checked:** the liveness properties, which are out of the prover's
reach; `LzmaEncoder`, `MatchFinder`, `MatchTree`, `RangeCoder` and
`Bcj2Encoder`, which need recursive operators; and the safety of `LzmaDecoder` and
`MtDecoder`, of which section 6 says what is worth proving.

## 5. Limits

* What a folder decodes to is abstract in `ArchiveHandle` and `FolderDecode`: it
  is its block, or the coder fails and leaves garbage. The arithmetic of the
  range decoder inside `LzmaDecoder`, the branch filters, PPMd (not in the
  build) and CRC are not modelled.
* Widths and limits are scaled: bytes, ranges and probabilities of the range
  coder, positions of the match finders, sizes of blocks and windows. Hash
  functions and prices are abstract. The SIMD forms of a loop are taken to be
  the plain one.
* Windows' synchronisation functions do not fail, except the creation of a
  thread. A stream or progress callback that failed once is taken to fail again.
  After a failed `Code` callback `MtCoder` may still write blocks behind the
  failed one, but it returns an error; the property speaks of what is written
  on success.
* When its threads meet bad data or a cut end, the multi-threaded decoder may
  return `SZ_OK`, also with `finishMode` 1 (`Lzma2DecMt.c:926`). The comment
  "if lzma2 stream must be finished" (`Lzma2DecMt.h:53`) does not say what is
  returned otherwise, so this is noted here and not counted as a divergence;
  `DecoderExact` asks that what is written is a piece from the start of the text,
  and all of it if the call returns `SZ_OK` for a stream one thread could decode.
* `getEntryInfo`'s conversions of names (UTF-16 to the ANSI code page) and times
  are left out; only "the name is too long" is kept. A header without names has
  no `FileNameOffsets`, which `getEntryInfo` does not ask about: the one hazard
  in the list without a property.
* The capacity of the buffer `FileDecode` allocates in file mode, and with it
  whether an entry fits into it, is not modelled (see *ArchiveHandle*).
* What `MtCoder` does in a call that begins while a thread of the call before has
  not come back is checked (`mt_late`), not claimed to be right.
* Numbers in `SzFolders` are below 128: the longer encodings are in
  `SzStreamInfo`. Folders have at most two coders there, four in `FolderDecode`.
* The file system is abstract: the file does not change while it is open.
* Not modelled, because the plug-in does not use them or they hold no state:
  `CSecToLook`, `CSecToRead`, `CBuf`, AES, LZMA86, the PPMd encoder, the old
  one-call interfaces, CPU detection, hashes, the About dialog, resources and
  build files.

## 6. What is left

1. Theorems: `OutputExact` of `LzmaDecoder`; `DecoderExact` with a ring argument like that of `MtCoder`.
2. Filters (`Delta`, `Bra`) as stream transformers with an inverse.
3. The name conversion of `getEntryInfo`, joined to `SzFilesInfo` by the offsets
   of names that may be missing.
