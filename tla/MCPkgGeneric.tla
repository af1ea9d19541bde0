---------------------------- MODULE MCPkgGeneric ----------------------------
(* Instances of PkgGeneric: small sets of packages that depend on each     *)
(* other, and the commands their user types.                               *)
EXTENDS PkgGeneric

NoDeps == [s \in DepStep |-> [p \in Pkg |-> {}]]

Just(p, target) == <<[pkgs |-> {p}, target |-> target]>>
All == <<[pkgs |-> Pkg, target |-> "installed"]>>

\* lib, made from an archive, and app, made from an override directory.
LibApp == {"lib", "app"}
AppNeedsLib == [NoDeps EXCEPT !["configured"]["app"] = {"lib"}]

\* Redoing packages, alone, before everything else, or after.
RedoCommands ==
  {All, Just("lib", "rebuild"), Just("lib", "reconfigure"), Just("app", "dircleaned"),
   Just("app", "rebuild") \o All, Just("app", "reinstall"),
   Just("app", "installed") \o Just("lib", "rebuild")}

\* Two packages made from archives, one of which takes the patched sources
\* of the other (as the kernel extensions do).
KernelExt == {"linux", "ext"}
LinuxTakesExt ==
  [NoDeps EXCEPT !["patched"]["linux"] = {"ext"}]
DircleanCommands ==
  {Just("ext", "installed"), Just("ext", "dircleaned") \o Just("ext", "installed"),
   Just("linux", "installed")}

\* A host tool that unpacks and configures lib; app needs lib and tool.
ToolLibApp == {"tool", "lib", "app"}
ToolDeps == [NoDeps EXCEPT !["extracted"]["lib"] = {"tool"},
                           !["configured"]["app"] = {"lib"}]
ParallelCommands ==
  {All, Just("lib", "rebuild"), Just("app", "installed") \o Just("lib", "rebuild")}

OneCommand == {Just("lib", "rebuild"), Just("lib", "installed")}

=============================================================================
