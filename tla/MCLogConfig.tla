---------------------------- MODULE MCLogConfig ----------------------------
(* LogConfig on a file that redefines "system", with and without a pattern, *)
(* and on one that cannot be read.                                          *)
EXTENDS LogConfig

Def(n, l, f, a) == [name |-> n, level |-> l, formatter |-> f, appenders |-> a]

MCTexts == {<<Def("system", "ERROR", NoPattern, <<"file">>)>>,
            <<Def("system", "ERROR", NoPattern, <<"stdout">>),
              Def("root", "DEBUG", NoPattern, <<"stdout", "file">>)>>,
            <<Def("root", "DEBUG", "%m%n", <<"file", "stdout">>),
              Def("system", "DEBUG", "%q", <<"file", "other">>)>>,
            <<Def(NoName, "DEBUG", "%m%n", <<>>)>>}
=============================================================================
