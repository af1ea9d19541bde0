# Buildroot's core, in TLA+

This directory is the verification project of the firmware build system in this
repository: Buildroot 2025.02 with a board configuration for the Radxa Zero 3E
(`src/scripts/build.sh` runs `make radxa_zero3e_defconfig` and `make -j`). Its
logic is in two languages. Make and shell drive a build: an engine that takes
some hundred packages through their steps, and the helpers it calls. The C
programs decide what is built and with what: the configuration programs of
`support/kconfig`, the wrapper that stands for the compiler, and `makedevs`.
Almost all state is on disk, survives failures and kills, and is trusted by the
next command; the C programs add caches of values, lists that are walked while
they change, and dialogs whose state lives from key to key. That is what the
models are about.

All paths below are under `src/buildroot/`.

## The system

| Part | State it keeps | Operations | Modelled by |
| --- | --- | --- | --- |
| Step engine, `package/pkg-generic.mk` | stamp files, build trees, lists of installed files | the recipes of the steps; `<pkg>`, `-rebuild`, `-reconfigure`, `-reinstall`, `-dirclean` | `PkgGeneric` |
| Patches, `support/scripts/apply-patches.sh` | `.applied_patches_list` | apply a directory, a series, an archive | `PkgGeneric` (the refusal of duplicates); rest planned |
| Downloads, `package/pkg-download.mk`, `support/download/dl-wrapper`, `check-hash` | files in `BR2_DL_DIR`, a lock per package, temporaries | one call per wanted file | `DlWrapper`, `DlCache` |
| git backend, `support/download/git`, `mk_tar_gz` | the git cache | one call per wanted revision | `GitBackend` |
| Other backends, `support/download/wget` etc. | none | fetch into a temporary directory | an environment action of `DlWrapper` |
| Per-package directories, `package/pkg-utils.mk` | `per-package/<pkg>/{host,target}` | merge dependencies by hard links, fix paths | planned |
| Finalization, `Makefile` and `fs/common.mk` | `target/`, images | merge, hooks, one copy of `target/` per image | planned |
| Users, `support/scripts/mkusers` | `/etc/passwd`, `group`, `shadow` | five passes over the users table | planned |
| Infrastructures, `package/pkg-*.mk` | none of their own (`.config` in pkg-kconfig) | recipes for the engine | parameters |
| kconfig expressions and menus, `support/kconfig/expr.c`, `menu.c`, `zconf.y` | the menu tree, the conditions of symbols | read the statements, finalize | `KTerms`, `KExpr`, `KCondition`, `KMenu` |
| kconfig symbols, `symbol.c` | values, cached until an edit | calculate, set, choose, look for recursions | `KSymbol`, `KCheck` |
| kconfig files, `confdata.c` | `.config`, `.config.old`, defconfigs, `auto.conf`, stamps | read, write, randomize | `KConfdata`, `KFiles` |
| kconfig programs, `conf.c`, `mconf.c` | a walk over the menus; what was edited | the modes of conf; menuconfig | `KConf`, `KMconf`, `KSession` |
| kconfig dialogs, `lxdialog/*.c` | list, cursor and page of a box | one call per box, a step per key | `LxList`, `LxMenu`, `LxChecklist`, `LxInput`, `LxLine`, `LxText` |
| nconfig, `nconf.c`, `nconf.gui.c` | calls of menus in each other, a search; boxes | a step per key | `NcMenu`, `NcDialogs` |
| gconfig, xconfig, lexer, `util.c` | windows of other libraries; none | | no |
| Compiler wrapper, `toolchain/toolchain-wrapper.c` | none | check and rewrite arguments, exec | `ToolchainWrapper` |
| `package/makedevs/makedevs.c` | files of the image | one step per line of a table | `MakeDevs` |
| Analysis, `support/scripts/graph-depends`, `pkg-stats`, ... | none | read and print | no |
| `../scripts/*.sh`, board files, recipes, tests, manual | none | straight-line | no |

How they interact: a user's make command decides, from the stamps, which recipes
run. The download recipe calls `dl-wrapper` under `flock`, because other builds
may share `BR2_DL_DIR`; the patch recipe calls `apply-patches.sh`; the configure
recipe snapshots the installed files and, with `BR2_PER_PACKAGE_DIRECTORIES`,
merges the directories of the dependencies; the install recipe computes the list
of installed files and calls `check-bin-arch` with it. Finalization reads the
target directories and the lists and calls `mkusers` and `makedevs` for each
image. Before any of this a user makes a configuration: `make menuconfig` or
`nconfig`, `defconfig`, `oldconfig` and their like run one of the configuration
programs, each of which reads the `Config.in` files and `.config` and writes
`.config`; `syncconfig` then writes what make includes. They share nothing but
these files. The compiler wrapper runs in every compilation of the build.

What is hard: make commands and recipes are killed or fail anywhere and are
started again over what they left; with `-j` and per-package directories recipes
of many packages run side by side; redo targets remove stamps while the same
make decides by them; several builds share the download directory; copies stop
half-way. In the configuration programs values are cached, and several ways to
set one must clear the caches; files leave out what can be told from the rest;
a write is three system calls and Ctrl-C may start it over; conditions are
rewritten by a dozen functions that are only sound under assumptions; passes
over the menus go on until nothing changes; boxes keep what they show, what they
act on and what the caller remembers apart. `PROJECT.json` lists these hazards
with their lines.

What makes each part correct:

* engine: a stamp make would keep vouches for a complete and coherent result;
  success means coherent packages; what a step depends on is ready and stays so
  while it runs; redo targets do what they promise and no more; dirclean starts
  over; a patch is applied once; lists of files are right; make ends;
* downloads: ok is only said, and stays true, of a file that is there and
  accepted; files appear atomically and go only if a hash contradicts them; a
  call ends, whatever others do;
* git backend: what is archived is the revision asked for, whatever earlier
  calls left in the cache; a cache that is unfit is recovered from, at the cost
  of one clone; a fit one is kept; a call ends;
* expressions and menus: what is evaluated is what was written, and the tree has
  every entry once, in order, below what it depends on; cycles are told;
* symbols and files: an edit that is accepted is the value; a choice has one
  value; what is saved is what is read again; no saved or entered value is lost
  without a question; after syncconfig, what make includes follows `.config`;
  every mode of conf ends, and asks all that is new;
* dialogs: what is seen is what a key acts on; lines are edited as the keys say;
* wrapper and makedevs: no path of the build machine reaches the compiler, and
  the caller's options win; status 0 means that the image is as the table says.

## Modules

### PkgGeneric: the step engine

State on disk: `stamp`, `work`, `applied`, `snapshot`/`since`/`list` (the files
`.files-list*.before` and `.files-list*.txt`, of which there is one each for
`target/`, staging, images and host; `check_bin_arch` reads the first only),
`edited`, `torn`. `torn` is not on
disk: it marks packages with a directory that an `rm -Rf` left half removed, or
that was removed while the same make took the package for up to date. State
of a make command: `status`, `jobs`, `plan`, `running`, `kept`, `made`, `left`,
`topatch`; `settled` remembers what was up to date before.

A stamp is `absent`, `stale` (older than a normal prerequisite) or `fresh`: this
is all that make reads in time stamps. `work[p][s]` says what the step left:
nothing, something unfinished, a result older than one of its inputs, or a
coherent one. The two are related only by what recipes do, which is the subject.

| Code | Definitions |
| --- | --- |
| rules of `inner-generic-package`, 832-990 | `Sequencing`, `OrderOnly`, `Pre`, `StepsOf` |
| redo targets, 1046-1066, and `.WAIT` | `Removals`, `CleanPrereq`, `Phases` |
| recipes, 174-387 | `StartDownload` ... `StartFinalInstall`, `FinishRecipe`, `FailRecipe`, `CheckBinArchFails` |
| `pkg_size_before`, `pkg_size_after`, 121-142 | `StartConfigure`, `StartInstall`, `StartFinalInstall` |
| `apply-patches.sh`, 110-118 | `ApplyPatch`, `RefusePatch` |
| clean and dirclean recipes | `StartClean`, `RemoveStamp`, `FinishClean`; `StartDirclean`, `RemoveSome`, `FinishDirclean` |
| GNU make itself (external) | `Make`, `CanVisit`, `Keep`, `Succeed`, `GiveUp`, `Kill` |

A recipe is a start (its work is unfinished from there), and an end: touch, or a
failure, or a kill at any moment between. `.NOTPARALLEL` is lifted only by
per-package directories (Makefile, 240-244), and `.WAIT` orders prerequisites
only since GNU make 4.4: both are constants.

### DlWrapper and DlCache: downloads

`DlWrapper` follows each call through the script, one action per command that
can be told apart from outside or by a failure: `Lock`; `LookElsewhere`, `Link`,
`StartCopy`/`EndCopy` (the former location, 59-70; `CanLink` says whether a hard
link to it is possible); `CheckExisting`, `Remove`
(72-88); `Fetch`, `FetchFails`, `NoMoreSites`, `CheckNew` (90-192); `Save`,
`Cat`, `Mv`, `SaveFails` (194-236); `Return`; and `Kill`, which lets the kernel
drop the lock. The lock is a set of holders, so that nothing but the guard of
`Lock` excludes two. `CheckHash` gives the exit codes 0, 2, 3 and 4 that
`check-hash` decides by: the first line that is not satisfied, then the want of
any line, unless the file is excluded. A site delivers any content, right or
wrong, and may deliver another one the next time.

`DlCache` says what callers rely on: a file that is there or not, changes by
single steps (of which one may be a copy that stops half-way), goes only if
wrong, and an answer, ok only of a file that is accepted. The refinement maps `answer` to
"pending" wherever the call is inside the script. `ImplementsCache` is that
`DlWrapper` implements it.

### GitBackend: the cache of a git tree

One call runs at a time, as `dl-wrapper` has the lock, and follows the script
command by command: `Start` (`git init`, remotes), `Fetch`, `Verify`,
`Checkout`, `Clean`, `ReadDate`, `More` (submodules and large files), `ReadAttr`,
`Expand`, then `StartArchive`, `Temp` and `Tar` of `mk_tar_gz`. Between calls
lives `cache`: whether its objects are all there, a lock file left by a killed
command, the tag and the local branch of each name, the branch checked out, the
commit the work tree is of, whether its hints are expanded and whether it has
files of nobody.

`_on_error` is `Fails` and `Wipe`: the first error removes the cache and
executes the script again, the second ends it. The script sets `-E`, so that a
subshell inherits the trap: when a command in `$(...)` or `<(...)` fails, the
subshell removes the cache and becomes a second run of the script, while the
first waits for its output. `at` therefore has two places, "main" and "sub";
`ReadFails` starts the second run and `SubEnds` says how the first goes on with
what that printed, in a directory that is gone (`call.gone`). That bash behaves
this way, and that git prefers the branch, was confirmed by running the script.

`Leftovers` and `Torn` are what a kill leaves in the cache; `Move` is somebody
moving a tag at the site between two calls. `call.trouble` records what went
wrong in a call, for the properties.

### KTerms, KExpr, KCondition, KMenu: what was written and what is evaluated

`KTerms` has the tristate values of symbols and comparisons, which of them
`expr_join_or` and `expr_join_and` put in the place of two (`OrOf`, `AndOf`), and what
`expr_transform` makes of one. `KExpr` has the values of expressions and the
functions of `expr.c` that `menu_finalize` puts conditions through, as operators on
trees: `TransBool`, `EliminateDups` with `Join`, `EliminateEq`, `EliminateYn`,
`Transform`. `KCondition` reads one condition
and finalizes it; `ConditionIsKept` compares the values before and after under
all assignments. `KMenu` reads any sequence of at most `MaxEntries` statements
out of `Configs` (`ReadConfig`, `ReadComment`, `ReadIf`, `ReadMenu`,
`ReadChoice`, `ReadEnd`, as the actions of `zconf.y` do), then walks the tree as `menu_finalize`
does: `Lift` and `MoveBelow` change the lists that the loops walk. `parsed` keeps
the tree as it was read: `TreeIsWhole` compares the two trees, and
`ConditionsAddUp` the conditions of the symbols with a definition straight from
the language.

### KSymbol, KCheck: symbols

`KState` is what is in memory: the definitions of symbols and the menu tree, which are
constants, and the state of the symbols. `KSymbol` is the lazy calculation of values, as
operators from one such state to the next: `Calc`, `CalcVisibility`, `CalcChoice`, with flags
`VALID`, `WRITE`, `DEF_USER` as in the code, and the ways to set a value. It is
what all programs below share. `KCheck` is `sym_check_deps`: a depth-first search
with marks and a stack, from every symbol in any order, over graphs of two
symbols and a choice; `CyclesAreTold` compares with the definition of a cycle.

### LkcProto, KConfdata, KFiles, KConf, KMconf, KMenuItems, KSession, KDirectory: configuration programs

`conf.c` and `mconf.c` call the functions of `symbol.c`, `menu.c` and
`confdata.c` by the names that `lkc_proto.h` declares, and so do their modules:
`LkcProto` has these functions as constants, operators from a state of the symbols
to the next (`conf_read`, `sym_set_tristate_value`, `conf_write_symbols`: the loop
of `conf_write`). What they do is in `KSymbol`, in `KConfdata` (`ConfRead`,
`ConfWrite`, `WriteDefconfig`, `SetAllNew`, `SetAllRandom`, `MenuIsVisible`) and, for the
list of entries that mconf shows, in `KMenuItems`; `Session.cfg` gives each constant the
definition of its function. TLC therefore checks programs and functions together,
while what is proved of the programs holds whatever the functions compute. This is
also what makes a proof possible: expressions are evaluated by recursive
operators, which the provers cannot take, and which `LkcProto` does not reach.

`KFiles` is the directory and `conf_write` call by call (`WriteTmp`, `RenameOld`,
`RenameNew`, `Written`), each of which may fail; `Killed` is possible anywhere. It
also has what `syncconfig` leaves for make: `auto` and `header` (the lines of
`auto.conf` and `autoconf.h`, as sets of pairs of a symbol and its value) and
`stamps`, the symbols touched since the last complete `auto.conf`.
`KConf` is `conf.c`: one step is what `conf` and `check_conf` do
to the next call or question, `todo` their stack; and `conf_write_autoconf` with
`conf_split_config`, a step for each stamp. `odd` is not in the program: it counts the
passes of randconfig, modulo two, so that a pass that changes nothing is a step too. `KMconf` is `mconf.c` without
what the dialogs do inside. `KSession` runs programs one after another in the
directory. `kept` in `KFiles` is the configuration that was saved last, for the
properties; `again` marks a `conf_write` that Ctrl-C started inside another one.

`KDirectory` is what these programs do to the directory, without menus and without
what is in a file: `Begin`, `Fill`, `RenameOld`, `RenameNew` are `conf_write`
(`confdata.c` 776-845), `Compare`, `Touch`, `RenameHeader`, `RenameAuto` are
`conf_write_autoconf` (865-1060), and `Stop` is a program that has finished, was
left or interrupted, or was killed. It promises `Saved` (the last saved
configuration is in `.config` or `.config.old`) and `Covered` (where the header
differs from the last complete `auto.conf`, the stamp was touched). `KSession`
maps the programs to it: `at` is `pc` while one of these functions runs and
"away" otherwise (`Step`), `new` is what the values in memory give (`Coming`), and
`todo` those of the symbols left whose value differs (`Untouched`).
`ImplementsDirectory` is that every run of the programs is one of `KDirectory`.

### LxList, LxMenu, LxChecklist, LxLine, LxInput, LxText: dialogs of menuconfig

One action per key of each box, and resizing. What is on the screen is state of
its own (`mScreen`, `cells`, `shown`), drawn and scrolled line by line as the code
does, so that it may differ from what a key acts on. `LxLine` is the abstract
line editor that an input box implements: the text before and after the cursor.
`OverrunInput` is the box opened with a text that is longer than its buffer, for
which the model stops: what is overwritten then is up to the compiler.

### NcMenu, NcDialogs: nconfig

`NcMenu` is `conf` and `conf_choice` called in each other (`frames`), with the
menu library's list (external: `SetTopRow`, `GoTo`, `Drive`), the search by
typing (`TypeLetter`, `FindNext`, `EraseLetter`, `ToggleSearch`), and lists that
change under it (`ItemsChange`, `LeaveList`). `NcDialogs` has `dialog_inputbox`
(again an implementation of `LxLine`), `show_scroll_win` and `btn_dialog`, and
the functions that ask with them: values, load, save, search, help, exit. Beside
the program's change count (`changed`), `unsaved` remembers whether the configuration
in memory is the one of a file, and `load_failed` whether the last load was refused.

### ToolchainWrapper, MakeDevs

`ToolchainWrapper` follows `main` from the caller's arguments to those of
`exec`, one action per block that adds or refuses, and one per turn of the loops
that look for unsafe paths (`scan`). An argument is a pair of an option and what
is concatenated to it. `MakeDevs` reads a table line by line; in
every line each call may fail (`Trouble`), also after it did a part of its work: a
node that has no owner or mode yet, a tree that was walked half-way, the first
of several parents. `ReadFails` is a read of the table that fails. The file system
is a function from paths to nodes, with calls as fakeroot answers them; `target`
remembers it as it was at the start.

### MCPkgGeneric, MCDlWrapper, MCGitBackend, MCSession, MCPrograms

The instances: dependencies, commands, hash lines, symbols and menus, tables. In
`MCPrograms` each behavior is one of eleven programs that share nothing.

### Modules of proofs

`PkgGenericProofs`, `DlWrapperProofs`, `GitBackendProofs`, `KconfigProofs`,
`LxProofs`, `LineProofs` and `ToolProofs` have the theorems, see below; those of
`KDirectory` are few and in the module itself.

Definitions called `...Mutant` are wrong variants of the definition that
follows them; substituted for it, they make the run named with them in
`PROJECT.json` fail.

## Runs

| Run | Instance | Shows |
| --- | --- | --- |
| `PkgRedo` | `lib` from an archive with a patch, `app` from an override directory and needing `lib`; three commands out of seven lines (all, redo targets, dirclean), one fault, one edit | `StampsVouch`, `InstalledIsCoherent`, `OnlyTheStepsAskedFor`, `NoPatchTwice`, `FreshlyMadeIsListed`, `RebuildTakesEdits` |
| `PkgDirclean` | `linux` patched with the sources of `ext`; `ext` built, `ext` removed and built in one command, `linux` built, of which the binary is for a wrong architecture, in any order; fairness | `DircleanStartsOver`, `MakeEnds` |
| `PkgParallel` | three packages, `-j`, per-package directories, make 4.4 | `IndInv` (which implies `StampsVouch` and `InstalledIsCoherent`), `DependenciesAreReady`, `StepsDoNotOverlap` |
| `PkgOldMake` | the same targets with a make that ignores `.WAIT` | violates `RebuildTakesEdits` |
| `PkgWrongArch` | build, then build again | violates `WrongArchIsRefused` |
| `DlListed` | three builders, one with two hashes, one with a hash and one of a type that `check-hash` does not know, one with no line for the file (so that each of its exit codes occurs), a wrong file in the former place, that can be linked or must be copied, two sites, fairness | `OkIsAccepted`, `ImplementsCache`, `CallsEnd` |
| `DlNoHash` | no hash file, the former file must be copied | violates `OkIsWhole` |
| `GitRecovers` | two calls for two revisions of two commits or none, two faults (a command that fails, in a subshell or not, or a kill), a removal cut short, a tag that moves, site down at will, quiet or not, fairness | `CleanOkIsTheCommit`, `CalmCallsSucceed`, `KeptWithoutTrouble`, `OnlyOnce`, `CallEnds` |
| `GitMoved` | two calls, a tag that moves | violates `OkIsTheCommit` |
| `GitDate` | one call, one fault | violates `DateIsTheCommits` |
| `Session` | eight symbols (five bools, a tristate, an int with a range, a choice that is only in sight without modules), mconf and eight modes of conf, work for two programs, one fault, with or without a file of another version | `FilesAreEnough`, `NothingIsLost`, `NoEditIsForgotten`, `AcceptedIsTaken`, `NothingIsNew`, `ChoiceIsExclusive`, `ConfEnds`, `ImplementsDirectory` |
| `Programs` | eleven programs, each for itself | `TreeIsWhole`, `ConditionsAddUp`, `ConditionIsKept`; `CyclesAreTold`; `MenuIsTrue`, `ListShowsChoice`, `InputIsShown`, `TextIsShown`; `ListIsTrue`, `DialogsAreTrue`; `WrapperIsRight`; `ExitTellsOfTable`, `OnlyWhatTableNames` |

`FilesAreEnough` is `SavedIsWhole` (what is written reads back to the same values,
and is not taken for a change), `DefconfigIsEnough` (a minimal configuration
gives the full one again) and `SyncedIsConfigured` (the header has what `.config`
says when `auto.conf` is about to be replaced). `NothingIsLost` is `ConfigSurvives`
(the last saved configuration is in `.config` or `.config.old`) and
`StampsCoverChanges` (what the header says otherwise than the last complete
`auto.conf` has been touched, whoever is killed). `NoEditIsForgotten`: mconf
leaves with edits unsaved only if the user said so. `MenuIsTrue`, `TextIsShown` and `InputIsShown` are what a box shows,
which keys do what, and that the box is the line editor `LxLine`. `ListIsTrue`:
the current item can be seen, what is typed is found, and leaving comes back to
where one was. `DialogsAreTrue`: the line editor, what is in sight, and that
nconfig ends with a configuration that no file has only after telling, but for what
a load that failed makes it forget. `ExitTellsOfTable`: after status 0 the target is as
the lines say that were read, and these are all unless a read failed.
`OnlyWhatTableNames`: each line changes only what its own path names, an `xattr` line
only the file of the last line that had a path. `WrapperIsRight` is
`RunsWithSafePaths` and `ArgumentsAreRight` (the caller's arguments last and in
order, nothing against them, no PIE for kernels, the array is never overrun).

### What the violations mean

* `PkgOldMake`: before GNU make 4.4, `.WAIT` is an ordinary phony target
  (Makefile, 1279), so `<pkg>-rebuild: <pkg>-clean-for-rebuild .WAIT <pkg>` has
  no order under `-j`. make may decide that the package is up to date before
  its stamps are removed; it then succeeds without a rebuild. The manual
  (`docs/manual/rebuilding-packages.adoc`, 112) promises a recompilation.
* `PkgWrongArch`: the snapshot that `pkg_size_after` compares with is written by
  the configure step only and removed by the first installation. After
  `<pkg>-rebuild` or `-reinstall`, or when make is run again after a failed
  check, there is none, and the list of the package's files becomes empty
  (`docs/manual/common-usage.adoc`, 339). A package that `check-bin-arch`
  refused therefore passes the second time.
* `DlNoHash`: the `cp` of the legacy handling (`dl-wrapper`, 68) writes to the
  final name and its failure is ignored. Without a hash file the beginning of
  the file is accepted, for this call and every later one.

The first two state what the manual says; they are limits of convenience
features rather than of the build's result. Those of `GitBackend` were
reproduced with the script itself:

* `GitMoved`: `git fetch origin cset:cset` (`git`, 146) makes a local branch
  with the name of a tag. `git checkout` prefers it, and fetching into it again
  is refused while it is checked out, which is ignored. Once a tag has moved,
  the old commit is archived as long as the cache lives.
* `GitDate`: an error of `git log` (196) in the first attempt is handled in the
  subshell. The outer script goes on with its output as the date: with `-q`, an
  empty one, which `date -d` takes for today. The archive cannot be reproduced.

The model knows more cases in which `OkIsTheCommit` is false, that
`CleanOkIsTheCommit` leaves out: a removal of the cache that was cut short may
leave a commit without its tree, which fetch and checkout do not notice, so that
files are missing in the archive (187); the pipeline in `<(...)` may fail without
notice in a second attempt, and hints stay in the files (239); when `mktemp`
fails in the first attempt with `-q`, the list of files is archived too
(`helpers`, 53). `OnlyOnce` names the case in which a cache is cloned more than
"only once". A site that does not answer is taken for a corrupted cache. Where a
package has a hash for the archive, `dl-wrapper` refuses the wrong ones.

### Exceptions the other properties name

No run states these as properties; they were met while translating and are
written where a definition or a property makes an exception for them:

* `mconf.c` 1002 with `confdata.c` 787: Ctrl-C in the message that `conf_write`
  prints after a save starts a second write, which finds `SYMBOL_WRITE` cleared
  and writes a heading only (`again` in `SavedIsWhole`, `NoEditIsForgotten`).
* `mconf.c` 913 and `confdata.c` 413: loading a file that does not exist clears
  the change count; edits made before are then left without a question
  (`failedLoad` in `NoEditIsForgotten`). So does nconfig (`load_failed` in
  `ExitTells`).
* `menubox.c` 269: after a resize the list may be drawn from a first item that is
  not where the selection counts from (`mStale` in `MenuShowsList`).
* `inputbox.c` 56: the text to be edited is copied into a buffer of 2048 characters
  (`dialog.h` 60) whatever its length (`OverrunInput`); keys alone never overrun it.
* `textbox.c` 167: the last page, and going back from it, count a line less for a
  text without a newline at its end (`Lined`); an empty text divides by zero in
  the title line (405).
* `nconf.c` 519: a search up from the first item or down from the last for what
  is nowhere never ends; 508: a search in an empty menu divides by zero; 943:
  a choice whose value went out of sight selects the item before the first.
* `nconf.gui.c` 604: the scrolled window has a line less than is counted.
* `toolchain-wrapper.c` 319: `-I -L -L/lib` makes the check take the wrong
  argument for a path (`confused`).
* `symbol.c` 1340: the search forgets a recursion when it is back at its symbol,
  so that `zconf.y` 558 never exits for one; implied symbols and ranges are not
  followed.
* `menu.c` 496: a definition of a symbol without any condition does not count
  once another one has a condition, as an or with nothing is no or (`AddPlace`,
  `DependenciesAddUp`).
* `menu.c` 448-494: with modules enabled, or when a symbol is defined in several
  places, an entry may be moved below one that is not shown when it could be set
  (`NothingIsHidden`; Buildroot has no tristates).
* `makedevs.c` 531-550: fields a line leaves out are those of the stack; 565: that
  a directory could not be made is not noticed, so that with a file in its place
  makedevs ends with 0 (`Occupied` in `ExitTellsOfTable`); 246: so does a table
  that could not be read to its end (`ferror`). Lines follow links that are in the target:
  `MakeDevsAssumption` leaves out tables with a path through one, or with one at
  its end, but for the trees of `r` lines, whose links are not followed.

### Bounds

`MaxRuns`, `MaxFaults`, `MaxEdits` bound the make commands, the failures and
kills, and the edits; `MaxCalls`, `MaxFaults`, `Sites` those of the downloads.
`MaxCuts` and `MaxMoves` bound the removals of the git cache that are cut short
and the moves of a tag; `ManyClones` is where the clones of one call stop being
counted, beyond what `OnlyOnce` tells apart.
Three commands are enough for something made, something redone over it or cut
short, and a command that relies on the result; every mutant is found within
them. Two packages suffice where one depends on the other and they differ in
kind; the parallel run has three so that two may run beside a third that both
concern. Three builders let one rely on the file, one hold the lock and one
wait. A second git call is enough to meet all that a first one, for the same or
another revision, can leave; two faults let the first one be killed, or both of
its attempts fail. Runs have `CHECK_DEADLOCK FALSE` because the bounds let the user stop; only
`Session` checks for deadlock: its user may stay at the prompt for ever, and a program
that is asked, or in the middle of a write, always has a next step or leaves.

`Session`: `MaxWork` bounds what is done, two for a program that is started and
one for an edit, so that two programs, or one with two edits, follow each other;
a second one only of `LaterModes`, those that read what is there. `MaxFaults` is
one: a kill, or a call that fails. `Answers`, `Entered` and `Draws` are numbers in
and out of the range, and all or no symbols drawn. The menus have what makes
values depend on each other: a selection, a range, a menu with a condition, a
choice one value of which comes into sight with another symbol.

`Programs`: `MaxEntries` three entries besides the root, enough for one to move
below another and a third one after it; conditions of two literals and their
negation, in a context or none; lists of up to five items (`MenuItems`,
`ListItems`) in windows of one to three lines, so that lists are shorter than the
window, of its height, and longer; input of `MaxLen` characters in boxes of one to
three cells; texts of up to three characters, and two of several pages; patterns
of `MaxPattern` letters and menus `MaxDepth` deep; commands of up to two
arguments, three paths, or six files, where more room is needed; tables of up to two
lines, and those of a file, any line and an `xattr` line, with one failing call (`MaxErrors`). `FieldMax` and `Word` shorten what is 32 bits wide.

### Fairness

`FairSpec` of `PkgGeneric` has weak fairness of what a make command does when no
recipe fails: make goes on as long as it can, and recipes are assumed to end
(downloads and compilers are outside). `RemoveSome`, `FailRecipe` and `Kill` and
the user have none. `FairSpec` of `DlWrapper` has weak fairness of each call's
own steps: processes run, backends return. Taking the lock is included with
weak fairness only: flock promises no order, and `CallsEnd` holds because the
number of calls others may put in between is finite, by `MaxCalls`; with an
endless stream of other calls a waiter could starve. `FairSpec` of `GitBackend`
has weak fairness of the script as a whole (`Run`, `SubEnds`, `Return`): its
commands end. Which of them fail is left open, so `CallEnds` says that a site
that never answers does not make the script try for ever.

`Session` assumes that whenever conf runs, it or the write it called goes on
(`GoesOn`): `([]<>(mode = "mconf") \/ []<><<GoesOn>>_vars)`, where `mode` is "mconf"
at the shell's prompt too. That is weak fairness without the `ENABLED` that TLC
would have to compute for every state. It includes that a user who is asked gives
an answer that is accepted some time; conf asks again otherwise, for ever, also
at the end of its input (`conf.c` 84-161). The step counts only if it changes what
is left to do, so that a loop of `conf` through the same question does not satisfy it.
Each pass of randconfig counts (`odd`), whatever `rand` gives: nothing is assumed of it,
and that the passes end is checked.
A conf with no step at all would not satisfy it either, and `ConfEnds` would say nothing
of it: that is why `Session` checks for deadlock.

## Proofs

`PkgGenericProofs`, for all sets of packages, kinds, dependencies, commands and
bounds, from `ConstantsAssumption`:

* `TypeCorrect`: `TypeOK` is an invariant;
* `Inductive`: so is `IndInv`. `StampsVouch` alone is not inductive: a stamp is
  touched in `FinishRecipe` over work that must be known to be based on good
  inputs, which takes `RunningIsNext` (what a recipe starts from is done, and it
  runs once in a command) and `DoneIsGood` (what this command has gone past is
  good). The condition of `StampsVouch` counts prerequisites that this command
  has brought up to date besides fresh ones, for between a prerequisite being
  remade and the next step's recipe a stamp may be stale for make's purposes
  only at its turn. `OkIsComplete` carries this to the end of the command;
* `StampsCorrect`, `InstalledCorrect`, `DependenciesCorrect`: `StampsVouch`,
  `InstalledIsCoherent` and `DependenciesAreReady` follow;
* `PatchesCorrect`: `NoPatchTwice`, from an invariant of its own about patch
  recipes that have yet to apply.

These hold with and without `.WAIT`, `-j` and per-package directories,
and for cyclic dependencies too (make would not visit them). They say nothing
of a `torn` package, by design.

The second part of the module is about what a command is asked for, so it has to know what
`Needs` is, which the model defines by recursion over the prerequisites: that
the redo targets need their clean targets only, and that a step needs steps only.
This assumes `ConstantsAssumption` and, so that the recursion ends, `NoCircles`.
It asks for less than Buildroot, whose recursive variables refuse any circle of
packages (`pkg-generic.mk` 807-817; `support/scripts/graph-depends` 135-150 tells
where it is): as the recipes have rtai need a configured linux, and linux patched
with the sources of rtai (`linux/linux.mk` 636), what has to be ordered is not
packages but what is extracted and patched ("tree") and what is built of it
("made"). `IndInv` and the
parts of `RedoInv` hold in every state (`RedoCorrect`):

* `OnlyRealSteps`, `RemadeAfter`: recipes are of steps the package has, and what
  comes right after a step that this command has remade is not kept but made;
* `CleanedIsGone`, `FirstIsClean`, `FirstIsFirst`, `CleanedIsNotKept`: what the
  clean recipe of a command removed stays away until the command makes it; the
  clean goals are a phase, or a goal, of their own that is over before a step is
  looked at, so that nothing they removed is taken for up to date;
* `EditsAreTaken`: an edit is synced before it is built, so that once this
  command has built there is none left;
* `OnlyExcused`: of a package that was up to date when the command began, only
  what a redo target asks for is removed, out of date or made: a stamp gets
  out of date only when a prerequisite is remade, which was asked for itself;
* `InstalledIsNoted`: from the configure recipe on there is a snapshot, and each
  installation of the command is noted until the last one lists them.

From these follow `NotOverlapping` (`StepsDoNotOverlap`), `OnlyAskedCorrect`
(`OnlyTheStepsAskedFor`), `ListedCorrect` (`FreshlyMadeIsListed`) and the action
properties `DircleanCorrect` (`DircleanStartsOver`: its goals follow each other
because make is called without `-j`) and `RebuildCorrect` (`RebuildTakesEdits`).
The last one assumes `WaitIsSpecial`: without it, it is false, as `PkgOldMake` shows.

`DlWrapperProofs`, for any builders, contents, hash lines, sites and bounds:

* `OkCorrect`, `RemovalCorrect`: `OkIsAccepted` and `RemovedOnlyIfWrong` (the
  latter is not run by itself: `ImplementsCache` implies it). `WholeCorrect`:
  `OkIsWhole` where there is a hash file that does not exclude the file; without
  that it is false, as `DlNoHash` shows. The
  invariant `Inv` adds that exactly the calls past `Lock` hold the lock and
  that they are one (`LockHeld`), and what the holder knows where it is
  (`Knows`): for instance that the file is absent from `Remove` to `Mv`, and
  that what it saves has passed or lacks a hash. `HolderStep` carries the
  argument: a step of the holder leaves what others know alone, and removes
  nothing that one of them was told ok of;
* `Implements`: `Spec` implies `ImplementsCache`, by a step simulation.

`GitBackendProofs`, for any revisions, commits, options and bounds:

* `CalmCorrect`, `KeptCorrect`: `CalmCallsSucceed` and `KeptWithoutTrouble`. The
  invariant `Reasons` follows an error back to its cause: whatever a subshell
  did is the consequence of trouble (`SubshellIsTrouble`, `AftermathIsTrouble`),
  a first attempt is given up for trouble or damage (`WipeHasReason`), and a
  second one starts from nothing, so that only trouble can stop it
  (`SecondIsClean`);
* `OnceCorrect`: `OnlyOnce`, from `FirstThenSecond`: without a failure in a
  subshell there is one run of the script at a time, and it counts its attempts;
* `CommitCorrect`: `CleanOkIsTheCommit`. `Sound` says of the cache that, while no
  tag has moved and no removal was cut short, each tag and local branch in it is
  what the site has under that name, and `GoesRight` what the script has achieved
  where it is: the revision is known, then checked out, then without files of
  nobody, dated, listed whole, and expanded. A call that starts on what any other
  left therefore ends with the commit.

`KDirectory`, for any configurations, symbols and values, and any number of
programs stopped anywhere:

* `SavedCorrect`, `CoveredCorrect`: `Saved` and `Covered`. `KeptIsThere` says
  which of the two files has the configuration: `.config`, or, between the two
  renames and after a program was stopped there, `.config.old` while there is no
  `.config`, so that the next program does not rename over it. `NewIsCovered`
  says that of what is going to be written, all changes are touched or still in
  `todo`.

`KconfigProofs`, for any symbols, menus, first files, modes, answers and bounds, and
whatever the functions of `LkcProto` compute; from `SymbolsAreDefined` (the symbols
have definitions) and `InitialFiles` (an `auto.conf` that is there at first has
lines that `conf_write_autoconf` could have written: none of a choice, none that says
n; its symbols may be known or gone):

* `SessionImplementsDirectory`: `ImplementsDirectory`, the refinement of `KDirectory`. One
  lemma per action of `KFiles`, `KConf` and `KMconf` maps it to a step of
  `KDirectory` or a stutter. What they need to know of the state is `TypeInv`: what `conf_write` was called
  with, that it goes on outside of both functions when it is done or fails, that the files are
  those of `FileNames`, and that `auto` could be an `auto.conf` (`IsAuto`). The step that matters is
  `SplitConfig`, which has to list every symbol that the header will say something else of
  (`ChangesDiffer`): those with a line now, and those of `auto.conf`, known or gone.
  Without the condition of `RenameHeader` that no symbol left differs, the proof fails;
* `SessionLosesNothing`: `NothingIsLost`, from this and the two theorems of `KDirectory`.
  `ConfigSurvives` and `StampsCoverChanges` therefore rest on the order of the steps only, and
  not on the menus of the instance, or on how values are calculated.

and for any symbols with any values (`Valuations`), from `ExprConstants` (a symbol is bool
or tristate, and neither is called y, m or n):

* `TermsKeepValue`: when two operands of `&&` or `||` about one symbol are joined, a bool
  is compared with y, m or n, or a comparison is negated, the new term is worth what the
  old ones were (`AndKeeps`, `OrKeeps`, `TransformKeeps`, `OppositeKeeps`). `Compared`
  is why the strings y, m and n can be compared instead of the values: equal
  ranks are equal values. It is the part of `ConditionIsKept` that does not walk
  trees; that whole conditions keep their value is left to TLC.

`LxProofs`, for lists of any length, windows of any height and any steps:

* `MenuCorrect`: `MenuIsTrue`. The invariant says where the choice, the scroll and
  each line of the window are after every key; `Layout`, `ScrolledUp` and
  `ScrolledDown` have a lemma each, and the lines are followed through
  `Scrolled` and `PrintItem`;
* `ListShows`: `ListShowsChoice`, likewise for the list of a choice;
* `TextCorrect`: `TextIsShown`, for texts and boxes of any size, from `TextConstants`
  (no text is empty, no box has no lines). Places in a text are counted in lines
  (`Stands`), where having read the end of the text is one line more than it has;
  `LineBelow` and `LineAbove` say that `get_line` and a turn of `back_lines` move by one
  line, and `WentForth` and `WentBack` that n of them move by n, or to the end. The
  walks are recursive functions: that they exist is shown with `WalkExists`, by the
  least number of steps for which they do not. `Printed` is what `print_page` then
  shows, `KeyLeads` the line that each key goes to, and `KeysAreFirst` that the number
  keys are those of the first places in sight. `TextInv` has to say more than
  the property: that `page_length` is what the end of the text leaves of the box,
  and that a search fills its page (`FillsPage`), without which coming
  back from a jump could scroll up.

`LineProofs`, for texts, buffers, menus and windows of any length, from
`InputConstants`, `DialogConstants` (the screen has the 20 lines and 75 columns that
`nconf.c` 1512 asks for) and `NcMenuAssumption` (items have an address, and the window,
which has 7 lines less than the screen, keeps one when it is resized):

* `InputCorrect`: `InputIsShown`, until the box is opened with a text that is longer
  than its buffer: with texts that fit, no key makes one that does not. `InputInv` is that the text ends in the buffer
  at `len`, with the cursor in it, and that each cell shows the character that
  `show_x` puts there. `Piece` is what a buffer has between two places; the
  lemmas `PieceInsert`, `PieceRemove`, `PieceTail`, `PieceFront` and `PiecesJoin`
  say what inserting and removing do to the pieces before and behind the cursor.
  With them each key maps to a step of `LxLine`;
* `DialogsCorrect`: `DialogsAreTrue`, in three parts. `LineInv` is the same for
  nconf's line, whose buffer is reallocated and read beyond its end. `PageInv` is
  that the scrolled text stays in its window, for which the start of a line is
  found by its number. `ExitInv` is that the change count is set whenever what is
  in memory is not what a file has, unless a load was refused after the last
  change: with this exception, nothing is lost untold at the end. `Min` and `Max` of the model are the least and greatest of a set
  because `<` is well-founded on numbers: `LeastElement` gets this from
  `WFMin` and `NatLessThanWellFounded`, without induction over an operator;
* `ListCorrect`: `ListIsTrue`, wherever the user goes. `ListOK` is that the rows in
  sight are rows of the list and the current item is one of them; what the library
  does (`SetTopRow`, `GoTo`, `Drive`) and `center_item` keep it. `NcInv` adds that the
  library has the items of the last call, unless that has none, and that every
  menu around it remembers a place (`Remembered`), while the others may have lost
  theirs. For the search, `RoundDown` and `RoundUp` say that going round a list
  meets each item once, at its distance (`% N` is unfolded to the three ranges it
  is used in), so that the first match is the nearest one (`Nearest`, `Searched`).

`ToolProofs`, for makedevs with any tables, targets and failing calls, from
`MakeDevsAssumption` (ids are numbers, the target has a root, and no line leads
through a link):

* `ExitCorrect`, `OnlyNamedCorrect`: `ExitTellsOfTable` and `OnlyWhatTableNames`,
  whichever calls fail, reads of the table included. `LineDone` is what one line
  does, whichever way it ends: nothing goes or changes its kind, nothing is touched but what the line speaks of (`Keeps`, `Stays`), and
  if no error is remembered, what the line asks for is there (`There`, `Applied`);
  there is a lemma for each kind of line, and those for trees and ranges of
  devices follow the walk. `DevInv` adds up the lines read so far: each is
  applied but for what later ones say otherwise; the path that is remembered is that
  of the last line that had one (`PathOfLast`), and what is no directory was there at the
  start or is of a line for nodes (`Origins`).

and for the wrapper with any arguments and macros, from `WrapperConstants`
(arguments are pairs of strings, and there is room for at least the seventeen that
may be added):

* `WrapperCorrect`: `WrapperIsRight`. `ScanInv` is what the loops have done: unless
  an option that takes a path is where another's path should be, the path of each
  earlier argument is safe, and in an argument whose later options are still to
  be compared, the text is a path that follows its option or has been looked at.
  `ArgsInv` bounds what each block may have added (`Most`), and says of each
  option added that the caller allows it (`Allowed`); what is run is the caller's
  arguments after such a list.

Left to TLC:

* liveness under fairness (`MakeEnds`, `CallsEnd`, `CallEnds`, `ConfEnds`), which
  the prover has no rules for;
* what is about expressions, menus and recursions (`TreeIsWhole`,
  `ConditionsAddUp`, `ConditionIsKept`, `CyclesAreTold`): `KExpr`, `KMenu`, `KCheck` have
  recursive operators, which the provers cannot take;
* what is about the values of symbols (`FilesAreEnough`, `AcceptedIsTaken`,
  `NothingIsNew`, `ChoiceIsExclusive`, `NoEditIsForgotten`): they are true because of
  what `KSymbol` and `KConfdata` compute, not whatever the functions do, and what
  these compute is values of expressions.

## Not modelled

* File contents and the commands of packages; legal-info, source-check, show and
  graph targets, which leave the build's state alone; messages and the build time log.
* Editing sources while a build runs; editing `.config` between commands (the
  manual asks for a clean build then).
* A failing `rm -Rf` in clean targets other than by being cut short; and a dirclean
  while the same `make -j` builds the package, which has no instance.
* Other uses of `BR2_DL_DIR`: hash files that differ between trees sharing it,
  and a reader that extracts the file outside of the lock.
* Umask, modes, the composition of the list of sites, and other backends' work.
* In the git backend: references that are neither tags nor branches, submodules
  and large files beyond the failure of their commands (200-228: what a kill in
  the middle of one leaves in the cache is not in `Leftovers`); the subshell that
  the pipeline at 239 becomes after an error runs to its end before the script
  goes on, where they would run side by side; and what `date` and
  `tar` do with odd dates; the repacking of archives after `git` (vendoring).
* In kconfig: the lexer and what is in memory (copies and frees of trees, the hash
  table, growing strings), the wording of help and searches, warnings, the types
  that choices and their values take from each other, `KCONFIG_OVERWRITECONFIG`,
  `auto.conf.cmd`, single-menu mode; hex numbers and strings behave as ints.
* In the dialogs: colours, borders, the width of characters; in nconfig, how the
  entries of a menu are worded (`build_conf`).
* gconfig and xconfig, which show the same symbols through GTK and Qt.
* In the wrapper the debug output; in makedevs how lines are scanned.
* The other parts that the table above gives as not modelled: analysis scripts
  keep no state between calls.

## Plan

1. `PkgGeneric`, `DlWrapper` and `GitBackend` with proofs (done); the C programs
   (done), the dialogs of menuconfig with proofs (done).
2. Theorems: the redo targets and dirclean, `CleanOkIsTheCommit`, the directory of
   the configuration programs and that mconf and conf keep to it, the line
   editors, nconf's lists, the text box, `makedevs`, the wrapper (done); next is what
   `KSymbol` computes, if its recursion over expressions can be written as functions.
3. The composition of `GitBackend` with `DlWrapper` (as `Fetch`).
4. `MkUsers`: the passes over the users table, against a reference (ids unique,
   fixed ids kept, one entry each).
5. `PerPackageDirs`: merging directories by hard links or copies, and that the
   files of a dependency are not changed through a link.
6. `ApplyPatches` and `Finalize`.
