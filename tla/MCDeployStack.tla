---------------------------- MODULE MCDeployStack ----------------------------
(* Values of the constants of DeployStack for TLC.                           *)
EXTENDS DeployStack, TLC

\* Build 1 links its decoder, 2 has it inlined, 3 is of a version with other domains.
Layouts == <<7, 0, 8>>
Decoders == <<5, 5, 6>>

OtherSources == (9 :> 1)

Env(target, key, source) == [Blank.env EXCEPT !.target = target, !.key = key, !.source = source]

\* The variables left empty are set to nothing.
Emptied(e, names) == [e EXCEPT !.empty = names]

\* A source; a registry on it or on another source; and either of them again.  The first sets
\* the registry's hash to nothing, and one registry its source, which the file then cannot give.
SomeEnvs ==
    LET source == Env("source", 0, 0)
        registry == Env("registry", 1, 0)
    IN  <<{Emptied(source, {"registryHash"})},
          {registry, Env("registry", 1, 9), Emptied(registry, {"source"})},
          {source, registry}>>

=============================================================================
