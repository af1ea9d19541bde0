-------------------------- MODULE ToolchainWrapper --------------------------
(***************************************************************************)
(* toolchain/toolchain-wrapper.c: the program that stands for each tool of *)
(* the cross toolchain.  It refuses paths of the build machine, puts the   *)
(* options of the target before those of the caller, and runs the compiler.*)
(* What BR_... macros it was built with is a set of names, constant for a  *)
(* toolchain.  An argument is a pair: the option ("none" for a file or     *)
(* path) and the text that is concatenated to it ("none" for nothing).     *)
(***************************************************************************)
EXTENDS Integers, Sequences

CONSTANTS
  ArgLists,       \* the arguments that the caller may give
  Toolchains,     \* the sets of macros
  MaxArgs         \* DEFAULT_MAX_ARGS

\* What the wrapper adds fits; the model names 17 options, the code has 1024 places.
ASSUME WrapperConstants ==
  /\ \A a \in ArgLists : a \in Seq(STRING \X STRING)
  /\ MaxArgs \in Nat /\ MaxArgs >= 17

VARIABLES
  wpc,            \* idle, and the parts of main in their order, then ran, failed
  macros,
  argv,
  scan,           \* the argument and the option at which the check of paths is
  epoch,          \* SOURCE_DATE_EPOCH in the environment: unset, valid or invalid
  use_ccache,     \* BR2_USE_CCACHE is 1
  args,           \* what the wrapper has put together
  room,           \* how many pointers are allocated for args
  exec_args

wrapvars == <<wpc, macros, argv, scan, epoch, use_ccache, args, room, exec_args>>

WrapInit ==
  /\ wpc = "idle" /\ macros = {} /\ argv = <<>> /\ scan = <<1, 1>>
  /\ epoch = "unset" /\ use_ccache = FALSE /\ args = <<>> /\ room = 0 /\ exec_args = <<>>

Flag(f) == <<f, "none">>
Given(opts) == \E i \in DOMAIN argv : argv[i][1] \in opts

unsafe_paths == {"/lib", "/usr/include", "/usr/lib"}
unsafe_opts == <<"-I", "-idirafter", "-iquote", "-isystem", "-L">>
Kernel == {"-D__KERNEL__", "-D__UBOOT__"}

found_nonoption == Given({"none"})

-----------------------------------------------------------------------------
Call ==
  /\ wpc = "idle" /\ wpc' = "locate"
  /\ macros' \in Toolchains /\ argv' \in ArgLists
  /\ epoch' \in {"unset", "valid", "invalid"} /\ use_ccache' \in BOOLEAN
  /\ UNCHANGED <<scan, args, room, exec_args>>

Goto(p) == wpc' = p /\ UNCHANGED <<macros, argv, epoch, use_ccache>>

\* From argv[0] or /proc/self/exe to the compiler and the sysroot; either may
\* not be found, or be too long.
Locate ==
  /\ wpc = "locate" /\ (Goto("paths") \/ Goto("failed"))
  /\ UNCHANGED <<scan, args, room, exec_args>>

\* The paths of the build machine, and all below them.
check_unsafe_path(path) == path \in unsafe_paths

\* The loops over the arguments and, for each, over the options: an option
\* that the argument starts with is found.
Found(k) ==
  /\ wpc = "paths" /\ scan[1] \in DOMAIN argv
  /\ k \in scan[2]..5 /\ argv[scan[1]][1] = unsafe_opts[k]

NextArgument ==
  /\ wpc = "paths" /\ scan[1] \in DOMAIN argv /\ \A k \in scan[2]..5 : ~Found(k)
  /\ scan' = <<scan[1] + 1, 1>>
  /\ UNCHANGED <<wpc, macros, argv, epoch, use_ccache, args, room, exec_args>>

\* The path is concatenated to its option.
CheckConcatenated(k) ==
  /\ Found(k) /\ argv[scan[1]][2] # "none"
  /\ Goto(IF check_unsafe_path(argv[scan[1]][2]) THEN "failed" ELSE "paths")
  /\ scan' = <<scan[1], k + 1>>
  /\ UNCHANGED <<args, room, exec_args>>

\* mutant: the argument after an option that takes a path is not looked at
CheckFollowingMutant(k) ==
  /\ Found(k) /\ argv[scan[1]][2] = "none" /\ scan[1] < Len(argv)
  /\ Goto("paths")
  /\ scan' = <<scan[1] + 1, k + 1>>
  /\ UNCHANGED <<args, room, exec_args>>

\* The path is the next argument.  It is then looked at as if it was an option
\* too, but only for the options that are left.
CheckFollowing(k) ==
  LET next == argv[scan[1] + 1]
  IN  /\ Found(k) /\ argv[scan[1]][2] = "none" /\ scan[1] < Len(argv)
      /\ Goto(IF next[1] = "none" /\ check_unsafe_path(next[2]) THEN "failed" ELSE "paths")
      /\ scan' = <<scan[1] + 1, k + 1>>
      /\ UNCHANGED <<args, room, exec_args>>

\* No argument is left, or the last one misses its path.
PathsChecked ==
  /\ wpc = "paths"
  /\ \/ scan[1] > Len(argv)
     \/ scan[1] = Len(argv) /\ \E k \in 1..5 : Found(k) /\ argv[scan[1]][2] = "none"
  /\ Goto("predefined") /\ UNCHANGED <<scan, args, room, exec_args>>

\* mutant: options of the linker are predefined whether or not there is something to link
PredefinedMutant ==
  /\ wpc = "predefined" /\ Goto("machine")
  /\ room' = MaxArgs
  /\ args' = (IF "BR_CCACHE" \in macros THEN <<Flag("ccache")>> ELSE <<>>)
             \o <<Flag("path"), Flag("--sysroot"), <<"none", "sysroot">> >>
             \o (IF "BR_ABI" \in macros THEN <<Flag("-mabi=")>> ELSE <<>>)
             \o (IF "BR_BINFMT_FLAT" \in macros THEN <<Flag("-elf2flt")>> ELSE <<>>)
  /\ UNCHANGED <<scan, exec_args>>

\* predef_args; BR_ABI stands for the sixteen macros that each add an option
Predefined ==
  /\ wpc = "predefined" /\ Goto("machine")
  /\ room' = MaxArgs
  /\ args' = (IF "BR_CCACHE" \in macros THEN <<Flag("ccache")>> ELSE <<>>)
             \o <<Flag("path"), Flag("--sysroot"), <<"none", "sysroot">> >>
             \o (IF "BR_ABI" \in macros THEN <<Flag("-mabi=")>> ELSE <<>>)
             \o (IF "BR_BINFMT_FLAT" \in macros /\ found_nonoption
                 THEN <<Flag("-elf2flt")>> ELSE <<>>)
  /\ UNCHANGED <<scan, exec_args>>

Adds(list) == args' = args \o list /\ UNCHANGED <<scan, room, exec_args>>
AddsIf(cond, list) == IF cond THEN list ELSE <<>>

\* mutant: -mtune alone does not keep -march and -mcpu out
MachineMutant ==
  /\ wpc = "machine" /\ Goto("date")
  /\ Adds(AddsIf("BR_ARCH" \in macros /\ ~Given({"-march=", "-mcpu="}),
                 <<Flag("-march="), Flag("-mcpu=")>>))

\* -mfloat-abi, -mfp (the last of -msoft-float and -mhard-float counts), and
\* -march and -mcpu unless the caller says something of the kind
Machine ==
  LET float == {"-mfloat-abi=", "-msoft-float", "-mhard-float"}
      soft == \E i \in DOMAIN argv :
                /\ argv[i][1] = "-msoft-float"
                /\ \A j \in i + 1..Len(argv) : argv[j][1] # "-mhard-float"
  IN  /\ wpc = "machine" /\ Goto("date")
      /\ Adds(AddsIf("BR_FLOAT_ABI" \in macros /\ ~Given(float), <<Flag("-mfloat-abi=")>>)
              \o AddsIf("BR_FP32_MODE" \in macros /\ ~soft, <<Flag("-mfp")>>)
              \o AddsIf("BR_ARCH" \in macros /\ ~Given({"-march=", "-mtune=", "-mcpu="}),
                        <<Flag("-march="), Flag("-mcpu=")>>))

\* Invalid is what is no number, or negative, or no date of the calendar; a
\* wrapper for a compiler that reads the variable itself does not look.
parse_source_date_epoch_from_env ==
  IF "BR_NEED_SOURCE_DATE_EPOCH" \in macros THEN epoch ELSE "unset"

Date ==
  LET date == parse_source_date_epoch_from_env
  IN  /\ wpc = "date"
      /\ Goto(IF date = "invalid" THEN "failed" ELSE "pie")
      /\ Adds(AddsIf(date = "valid",
                     <<Flag("-D__TIME__"), Flag("-D__DATE__"), Flag("-Wno-builtin-macro-redefined")>>))

\* Position independent code, unless the caller rules it out; -pie, unless it
\* links a library (-r stands for -Wl,-r, -fno-pie for -fno-PIE and -no-pie,
\* and -fPIC for -fpic, -fpie and -fPIE).
Pie ==
  LET on == "BR2_PIC_PIE" \in macros /\ ~Given(Kernel \cup {"-r", "-static", "-fno-pie"})
  IN  /\ wpc = "pie" /\ Goto("relro")
      /\ Adds(AddsIf(on /\ ~Given({"-fPIC"}), <<Flag("-fPIE")>>)
              \o AddsIf(on /\ ~Given({"-shared"}), <<Flag("-pie")>>))

\* BR2_RELRO_PARTIAL and BR2_RELRO_FULL
Relro ==
  LET on == ~Given(Kernel) /\ found_nonoption
  IN  /\ wpc = "relro" /\ Goto("append")
      /\ Adds(AddsIf(on /\ "BR2_RELRO_FULL" \in macros, <<Flag("-z_now")>>)
              \o AddsIf(on /\ macros \cap {"BR2_RELRO_PARTIAL", "BR2_RELRO_FULL"} # {},
                        <<Flag("-z_relro")>>))

\* mutant: the null pointer at the end is not counted
AppendArgsMutant ==
  /\ wpc = "append" /\ Goto("exec")
  /\ room' = (IF Len(args) + Len(argv) > room THEN Len(args) + Len(argv) ELSE room)
  /\ args' = args \o argv \o <<Flag("NULL")>>
  /\ UNCHANGED <<scan, exec_args>>

\* argc counts the name of the program, in whose place the null pointer comes.
AppendArgs ==
  LET argc == Len(argv) + 1
  IN  /\ wpc = "append"
      /\ Goto("exec") \/ (Len(args) + argc > room /\ Goto("failed"))
      /\ room' = (IF Len(args) + argc > room THEN Len(args) + argc ELSE room)
      /\ args' = args \o argv \o <<Flag("NULL")>>
      /\ UNCHANGED <<scan, exec_args>>

\* Without BR2_USE_CCACHE the compiler itself is run; an exec that fails returns.
Exec ==
  /\ wpc = "exec" /\ (Goto("ran") \/ Goto("failed"))
  /\ exec_args' = IF "BR_CCACHE" \in macros /\ ~use_ccache THEN Tail(args) ELSE args
  /\ UNCHANGED <<scan, args, room>>

WrapNext ==
  \/ Call \/ Locate \/ NextArgument \/ (\E k \in 1..5 : CheckConcatenated(k) \/ CheckFollowing(k))
  \/ PathsChecked \/ Predefined \/ Machine \/ Date \/ Pie \/ Relro
  \/ AppendArgs \/ Exec

WrapSpec == WrapInit /\ [][WrapNext]_wrapvars

-----------------------------------------------------------------------------
(* Properties                                                              *)

\* The compiler does not run with a header or library path of the build
\* machine, concatenated to its option or not, and also where one path is
\* missing and the next option is taken for it.  Only where that is one of
\* those that take a path does the wrapper lose track of what is a path.
RunsWithSafePaths ==
  wpc = "ran" =>
    LET options == {i \in DOMAIN argv : argv[i][1] \in {unsafe_opts[k] : k \in 1..5}}
        bare == {i \in options : argv[i][2] = "none"}
        paths == {i \in DOMAIN argv : i - 1 \in bare}
    IN  \/ bare \cap paths # {}
        \/ /\ \A i \in paths : ~(argv[i][1] = "none" /\ argv[i][2] \in unsafe_paths)
           /\ \A i \in options \ paths : argv[i][2] \notin unsafe_paths

\* What the wrapper adds gives way to the caller: all of the caller's
\* arguments come last and in their order, and no machine, float or code model
\* is added that the caller chose.  It starts with the program to run.
CallerDecides ==
  wpc = "ran" =>
    LET n == Len(exec_args) - Len(argv) - 1
        added == {exec_args[i][1] : i \in 1..n}
    IN  /\ SubSeq(exec_args, n + 1, n + Len(argv)) = argv
        /\ exec_args[1] = Flag(IF "BR_CCACHE" \in macros /\ use_ccache THEN "ccache" ELSE "path")
        /\ Given({"-march=", "-mtune=", "-mcpu="}) => added \cap {"-march=", "-mcpu="} = {}
        /\ Given({"-msoft-float"}) /\ ~Given({"-mhard-float"}) =>
             added \cap {"-mfloat-abi=", "-mfp"} = {}
        /\ Given({"-static", "-r", "-shared"}) => "-pie" \notin added

\* The kernel and the boot loader, which are linked to no address of their
\* own, get neither PIE nor RELRO; and a call that links nothing gets no
\* option of the linker, without which the compiler only answers questions.
KernelsAreLinkedPlainly ==
  wpc = "ran" =>
    LET added == {exec_args[i][1] : i \in 1..Len(exec_args) - Len(argv) - 1}
        linker == {"-z_now", "-z_relro", "-elf2flt"}
    IN  /\ Given(Kernel) => added \cap {"-fPIE", "-pie", "-z_now", "-z_relro"} = {}
        /\ ~found_nonoption => added \cap linker = {}

\* The array of pointers is never written past its end: before the caller's
\* arguments by how many the wrapper may add, after by making room.
ArgumentsFit == Len(args) <= room

\* The command that is run is a program with what the wrapper adds, none of it
\* against the caller's wish or where a kernel is built, and it has its place.
ArgumentsAreRight == CallerDecides /\ KernelsAreLinkedPlainly /\ ArgumentsFit

\* What the compiler is run with.
WrapperIsRight == RunsWithSafePaths /\ ArgumentsAreRight

=============================================================================
