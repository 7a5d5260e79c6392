---------------------------- MODULE MCPluginLoader ----------------------------
(***************************************************************************)
(* Three directories.  "alpha" holds what "beta" depends on and is edited  *)
(* once; "beta", listed after it, is broken by its next edition; "gamma"   *)
(* is broken in two ways and then offers a skill of the name of alpha's.   *)
(***************************************************************************)
EXTENDS PluginLoader, TLC

M(n, ds, f) == [name |-> n, dependencies |-> ds, fault |-> f]

MCNames    == {"base", "user", "spare"}
MCDirs     == {"alpha", "beta", "gamma"}
MCDirOrder == <<"alpha", "beta", "gamma">>
MCEditions ==
  [alpha |-> <<M("base", <<>>, "none"), M("base", <<>>, "none")>>,
   beta  |-> <<M("user", <<"base">>, "none"), M("user", <<>>, "manifest")>>,
   gamma |-> <<M("spare", <<>>, "handler"), M("base", <<>>, "entry"), M("base", <<>>, "none")>>]

MCInitially == {[alpha |-> 1, beta |-> 1, gamma |-> 3],
                [alpha |-> 0, beta |-> 1, gamma |-> 2],
                [alpha |-> 2, beta |-> 2, gamma |-> 1]}

MCOtherSkills == {[name |-> "spare", version |-> "1.0.0", dependencies |-> <<"user">>]}
MCOffered ==
  UNION {{SkillOf(MCEditions[d][k]) : k \in DOMAIN MCEditions[d]} : d \in MCDirs} \cup MCOtherSkills
=============================================================================
