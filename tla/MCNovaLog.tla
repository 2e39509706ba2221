------------------------------ MODULE MCNovaLog ------------------------------
(* Logger names and default_log_levels over the characters a, b, c, "."    *)
EXTENDS NovaLog

CONSTANTS f1, d1

\* "a", "a.b", "a.bc", "a.b.c"
MCLoggerNames == {<<"a">>, <<"a", ".", "b">>, <<"a", ".", "b", "c">>,
                  <<"a", ".", "b", ".", "c">>}
\* [], ["a.b=DEBUG"], ["a=WARN", "a.b=DEBUG"], ["a.b=DEBUG", "a=WARN"]
MCLevelConfigs == {<<>>, <<<<<<"a", ".", "b">>, "DEBUG">>>>,
                   <<<<<<"a">>, "WARN">>, <<<<"a", ".", "b">>, "DEBUG">>>>,
                   <<<<<<"a", ".", "b">>, "DEBUG">>, <<<<"a">>, "WARN">>>>}
\* Only the default levels: for the runs about the root's handlers.
MCOneLevelConfig == {<<>>}
\* No named loggers: for the runs about the root's handlers.
MCNoNames == {}
\* One name below a configured logger: for the merged root and levels run.
MCOneName == {<<"a", ".", "b", ".", "c">>}
\* The default levels, or ["a=WARN", "a.b=DEBUG"]: a later pair overrides
\* an earlier one for "a.b.c", and "a.bc" falls under "a" only.
MCTwoLevelConfigs == {<<>>, <<<<<<"a">>, "WARN">>, <<<<"a", ".", "b">>, "DEBUG">>>>}

\* For the default_log_levels FLAGS hold, NovaLogger.setup_from_flags's
\* startswith("%s." % logger) test with the last matching pair winning
\* gives every name above the level of the dotted-ancestor rule: "a.b"
\* covers "a.b.c" but not "a.bc", and a later pair overrides an earlier one.
LevelRuleMatchesReference ==
    \A n \in MCLoggerNames :
        setup_from_flags_level(n, flags.default_log_levels) = ReferenceLevel(n, flags.default_log_levels)
=============================================================================
