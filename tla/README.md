# TLA+ models of the native framework bridges

This directory models the JNI bridges in `src/core/jni/` with TLA+ and checks them with TLC.
The bridges are the C++ side of `android.content.res.AssetManager`, `android.os.MemoryFile`, `android.app.ContextImpl` and `android.os.Process`, built for a Darwin host (the `MOE` build).

## 1. Inventory

| Part | Source | State | Operations | Modelled by |
|---|---|---|---|---|
| Asset search and asset I/O | `android_content_res_AssetManager.cpp` 16-179, 279-281 | `mPaths` (6 roots), the process descriptor table, one file offset per descriptor | `init`, `openAsset`, `openNonAssetNative`, `findAssetPath` (`findAsset`), `destroyAsset`, `getAssetLength`, `readAssetChar`, `readAsset`, `seekAsset`, `getAssetRemainingLength` | `AssetManager`, `AssetManagerSpec` |
| Resource-id table | same file, 181-277 | the managed `HashMap mNameIds` | `getResourceIdentifier`, `getResourceEntryName`, `loadResourceValue` (through `getResourceEntry`) | `ResourceTable` |
| MemoryFile | `android_os_MemoryFile.cpp` | an ashmem region (pinned, purged, content), its descriptor, its mapping | `native_open`, `native_mmap`, `native_munmap`, `native_close`, `native_read`, `native_write`, `native_pin`, `native_get_size` | `MemoryFile` |
| C string buffers | AssetManager and ContextImpl sources | each `new char[]` and the bytes written into it | `strcpy`, `strcat`, `CFStringGetCString`, `'\0'` stores | `CStrings` |
| ContextImpl | `android_content_ContextImpl.cpp` | none | `nativeGetPackageName` (buffer in `CStrings`), `getTmpDir` | partly |
| Process | `android_os_Process.cpp` | the thread's priority | `setThreadPriority` | `Process` |

`destroy` and `setConfiguration` have empty bodies, so they are no actions.

The parts share nothing but process-wide OS resources: the descriptor table and the environment.
Two of these interactions are modelled:

- **Descriptor reuse.** `open(2)` returns the lowest free descriptor.
  - `AssetManager` models the descriptor table.
  - `MemoryFile` has `OtherOpen`/`OtherClose` environment actions, which stand for the asset code and any other component opening and closing files.
- **Shared offsets.** A descriptor's offset is shared by `read`, `lseek` and every stdio `FILE` that `fdopen` puts on it. This is what makes `readAssetChar` wrong.

The behaviours that make this code hard to test:

- Descriptor 0 being free when a search runs.
- A stdio buffer silently advancing a shared offset.
- The kernel purging an unpinned ashmem region between two system calls.
- Pins that are not counted across threads.
- A `close()` on one thread unmapping the region under another thread's copy.
- A descriptor number reused after `close`.
- Two unserialised `getResourceIdentifier` calls reading the same `size()`.
- Buffers sized one or two bytes short of the strings written into them.
- A JNI function whose C signature does not match its registration.

## 2. Modules

### `AssetManager` (detailed) and `AssetManagerSpec` (abstract)

`AssetManagerSpec` states what spec section 4.2 promises:

- Six roots are searched in a fixed order, and the first match wins.
- Opening fails only when the file is absent or no handle is free.
- A handle is a byte stream with one position. Sequential reads advance it by what they return. Positional reads and length queries leave it alone. Seeks set it.

`AssetManager` follows the code:

- **State.**
  - `mPaths` is the `String[]` built by `init`; paths are abstracted to the root they name.
  - `init` may run again; it builds the same array. Every root ends in `/`, so `openAsset`'s `root + name` and `findAsset`'s `root + "/" + name` name the same file, and abstracting paths to roots loses nothing there.
  - `fdtab` and `off` are the process descriptor table and the offsets.
  - `held` is the set of handles the managed `AssetInputStream` holds.
  - `result` is the last returned value.
- **`SearchLoop`** is the loop `for (i = 0; i < numPaths && f <= 0; i++) f = open(...)` shared by `openAsset` and `findAsset`, written as a RECURSIVE operator. `PosixOpen` returns the lowest free descriptor.
- **`readAssetChar`** models `fdopen` plus `fgetc`: one `read(2)` of `BufSize` bytes into the new `FILE`, which moves the descriptor's offset.
- **The refinement.** `AssetManagerRefinement` maps the state onto the abstract one:
  - a handle is open if it is held;
  - its position is `off[h]`;
  - the abstract `ready` is `mPaths # NULL`.

### `ResourceTable`

`getResourceIdentifier` is two steps, because `size()` (line 200) and `put()` (line 209) are separate calls into the managed runtime and other threads can run between them.

- Names and types are sequences of characters, so a name may contain `.`.
- `EntryNameOf` is `strrchr(name, '.')` and the cut at line 239, written with `SelectLastInSeq`.
- `Serialized` models the caller-side lock that spec section 5 requires.
- `getResourceEntry` is `HashMap.get`: the stored name, or `NULL` for an id not in the table. Its `GetStringUTFChars` is commented out, so unlike `getResourceEntryName` it does not crash on an unknown id. `loadResourceValue` writes its result into `tvString`, the `TypedValue.string` field. No property is stated about it: the table and the record of issued ids change in the same step, so a check of what it returns would only restate `HashMap.get`.

### `MemoryFile`

- **State.**
  - one ashmem `region` (`alive`, `pinned`, `purged`, `content`);
  - the managed `FileDescriptor` value `jfd`;
  - `life` of the managed object (`new`, `open`, `deactivated`, `closed`);
  - `mapped`;
  - `allowPurging`;
  - per thread, the step of its `native_read`/`native_write`.
- **Read and write steps.** `native_read` and `native_write` are three steps per thread:
  - `RwBegin`: get the fd, pin if `unpinned`, and throw and unpin on `ASHMEM_WAS_PURGED`;
  - `RwCopy`: the copy;
  - `RwUnpin`: unpin.
- **Kernel and other components.** `Purge` is the kernel under memory pressure. `OtherOpen`/`OtherClose` are other components.
- **The managed caller** (not under `src/`) is modelled only by what it passes:
  - `unpinned` is `mAllowPurging`;
  - `allowPurging(a)` calls `native_pin(fd, !a)` only when `a` changes;
  - `close()` unmaps before `native_close`, and a deactivated file is never mapped again.
- **Ghost variables:**
  - `written`, the last stored value;
  - `reported`, whether a purge was reported since;
  - `lastRead`;
  - `foreign`, set when a call reaches a descriptor that belongs to another component;
  - `stale`, set when a copy goes through an address `native_munmap` has released.
- **`native_munmap(t)`** runs on a thread that is not itself in a read or write. Nothing orders it with another thread's read or write: the managed `readBytes` checks `isDeactivated()` before the native call, and `close()` is not synchronised with it.
- **`MOE`** says which build runs: `TRUE` is the build in which ashmem is compiled out. It is a variable chosen in `Init` from `Builds` and never changed, so one run explores both builds.

### `CStrings`

This module covers every buffer a bridge function builds with the C string library.
- **Programs.** Each buffer is a program of library calls, translated from the function: `new char[n]`, `strcpy`, `strcat`, `CFStringGetCString`, and `buf[i] = '\0'`. The programs are `ResPathProg`, `TmpDirProg`, `OpenAssetProg` and so on.
- **Data.** Strings are abstracted to their lengths. Where a byte lands depends only on lengths.
- **Steps.** A call runs its program one library call per step. It records the indices written since `new`.
- **Arithmetic.** `strlen(tmpdir) - 5` is `size_t` arithmetic, taken modulo `2^SizeBits`. `SizeBits = 16` is enough: the wrapped index is far past any allocation, as it is with 64 bits.
- **`InBounds`** says every index written lies inside the allocation.

### `Process`

`setThreadPriority` is declared `setThreadPriority(jint priority)`, but it is registered for the static native method `(I)V`, which the runtime calls as `f(JNIEnv*, jclass, jint)`.
- The parameter the C function reads is therefore the low word of the `JNIEnv` pointer.
- That is undefined behaviour. It is modelled as a choice among `EnvWords`, the values the build can produce.

## 3. Runs

| Run | cfg | Expect | What it shows |
|---|---|---|---|
| asset_io | `MC_AssetManager.cfg` | pass | All asset operations with fds 0-2 open: `TypeOK`, and `NoFdLeak` (no search leaves a descriptor open that the caller does not hold). |
| asset_stream | `MC_AssetManager_stream.cfg` | pass | Without `readAssetChar` the bridge refines `AssetManagerSpec`. |
| asset_readchar | `MC_AssetManager_readchar.cfg` | violation | `readAssetChar` skips `BufSize - 1` bytes: 4-state trace `init`, `openAsset`, `readAssetChar`. |
| asset_fd0 | `MC_AssetManager_fd0.cfg` | violation | With fd 0 closed, a match opened as 0 is taken for a failure and leaked. |
| memfile | `MC_MemoryFile.cfg` | pass | One thread, both builds: `NoUnreportedLoss` (write, allow purging, purge, read must report the loss), `OwnDescriptorOnly` (after `native_close`'s `setFD(-1)`, a second close or `native_get_size` never reaches a reused number), `TypeOK`. |
| memfile_pin | `MC_MemoryFile_pin.cfg` | violation | `allowPurging(false)` after a purge swallows `ASHMEM_WAS_PURGED`; a later read returns zeros with no error. |
| memfile_threads | `MC_MemoryFile_threads.cfg` | violation | Two unpinned reads: the first one's unpin lands under the second one's copy. |
| memfile_unmap | `MC_MemoryFile_unmap.cfg` | violation | `CopyWithinMapping`: 6-state trace `native_open`, `native_mmap`, t1 `RwBegin`, t2 `native_munmap`, t1 `RwCopy` through the released mapping. |
| cstr_init | `MC_CStrings.cfg` | pass | `init`'s three buffers (with `MOE_TMP_DIR` at least 5 long) and `nativeGetPackageName`'s buffer stay in bounds. |
| cstr_overflow | `MC_CStrings_overflow.cfg` | violation | The buffers of `openAsset`, `findAsset`, `getResourceIdentifier` and `getResourceEntryName` are one or two bytes short, and a `MOE_TMP_DIR` shorter than 5 makes `init` write far outside its buffer. |
| process_priority | `MC_Process.cfg` | violation | `setpriority` never receives the caller's priority. |
| restable | `MC_ResourceTable.cfg` | pass | Serialised callers on two threads: ids keep their resource, and entry names round-trip for names with a dot. |

### Bounds

- **AssetManager:**
  - one asset name, in any subset of the six roots (`dirs` is chosen in `Init`);
  - five descriptors, so that two handles can be open besides the standard streams;
  - file lengths 0-2;
  - `BufSize = 2`, so that one refill over-reads;
  - offsets up to `MaxPos = 3`, one past the longest file, so that EOF and seeking past it both happen.
- **MemoryFile:** two descriptors, so that a closed region's number can be reused by another component, and one data value besides zero. The passing run has one thread, because two threads break `NoUnreportedLoss`, `PinnedWhileCopying`, `CopyWithinMapping` and `OwnDescriptorOnly`; the second and third are violation runs, the last a hazard note. With one thread no copy can overlap another call, so the pin bracket and the purging mode are not stated as properties there: they would only restate `RwBegin`'s pin. Both builds are explored in it.
- **ResourceTable:** up to four ids, two threads, a plain name and a dotted one.
- **CStrings:**
  - URL lengths 7 (the bare `file://` prefix) to 20;
  - `MOE_TMP_DIR` lengths 5, 6 and 12 in the passing run, and 3 in the violating one;
  - path, name and type lengths 1 to 3. Each short buffer is short by a constant, so length 1 already shows it.
  - TLC reports one counterexample for `cstr_overflow`. Restricting `Funcs` to each of its five functions in turn gives a violation for each.
- **Two-thread cases without a run.** Two MemoryFile hazards need two threads and have no run slot:
  - `allowPurging(false)` on one thread while another thread's unpinned read is in flight: the read's closing unpin leaves the region purgeable (line 97);
  - `close()` on one thread while another thread's read is between its copy and its unpin: the unpin reaches a number another component has reopened (line 88). A one-off check of `OwnDescriptorOnly` with two threads fails in 10 states.

### Fairness

All properties are safety properties, so no fairness is assumed. The bridges contain no waiting, retrying or eventual action that a liveness property could state.

### Mutants

Each property of a passing run has a mutant: a plausible bug in the mapped definition that TLC must catch. They are listed in `PROJECT.json`, for example:

- `findAsset` without the `close`;
- `native_close` without `setFD(-1)`;
- `RwBegin` without the `WAS_PURGED` test;
- `getResourceEntryName` with `strchr`.

## 4. Not modelled

- **A NULL `MOE_TMP_DIR`.** `strlen(NULL)` at line 39 and `NewStringUTF(NULL)` in `getTmpDir` are not modelled; `CStrings` takes a length.
- **Leaked `FILE` objects and heap buffers**, and `delete`/`delete[]` mismatches.
- **`getTmpDir`:** no state, and no buffer.
- **`setpriority`'s effect on Darwin:** `Process` checks only the argument it receives.
- **Crashes on NULL.** These are modelled as guards, the order the managed callers keep:
  - `mPaths` before `init`;
  - an unknown id in `getResourceEntryName`.
- **`int` offsets** in `getAssetLength` and `readAssetChar`, which truncate for assets of 2 GiB or more. This is listed as a hazard without a property, as are the leaked `FILE` objects.

## 5. Plan for later work

1. A composition of `MemoryFile` and `AssetManager` over one descriptor table. It would replace the `OtherOpen`/`OtherClose` stand-ins with the asset code's own opens and closes. It asks no new question: `OtherOpen` already reuses a closed number the way any other component would, whoever that is.
2. An unserialised `ResourceTable` run (`Serialized = FALSE`), to show the duplicate-id hazard the spec leaves to callers. A one-off check of `IdsKeepTheirResource` with `Serialized = FALSE` fails in 5 states.
3. Two-thread MemoryFile runs for the reused-descriptor unpin (`OwnDescriptorOnly`) and the `allowPurging(false)` race.

Each would need a run of its own. The twelve runs are all in use, so each would have to replace one.
