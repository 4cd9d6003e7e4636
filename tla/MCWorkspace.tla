---------------------------- MODULE MCWorkspace ----------------------------
(***************************************************************************)
(* Workspace instantiated for TLC: a dataset and a dot-file the runtime    *)
(* may write at the top of the workspace, in uploads and in an output     *)
(* directory; uploads to the default destination, to a subdirectory, and  *)
(* to destinations that leave the workspace.                              *)
(***************************************************************************)
EXTENDS Workspace

MCRuntimeFiles ==
    {Base \o <<"data.csv">>, Base \o <<".env">>,
     Uploads \o <<"data.csv">>,
     Base \o <<"out", "data.csv">>,
     Base \o <<"out">>}
\* "out" may be a file or a directory, so an isdir() answer can go stale.
MCRuntimeDirs == {Base \o <<"out">>}
MCHiddenNames == {".env"}
MCDests == {<< >>, <<"out">>}
\* Destinations that leave the workspace: absolute, and through ".."; and
\* the default "", with which only the filename can lead outside.
MCEscapingDests == {<< >>, <<"/", "etc">>, <<"..">>, <<"uploads", "/", "..", "/", "..">>}
MCFilenames == {<<"data.csv">>}
\* Filenames a client may put in the multipart header: absolute, and
\* through "..".
MCEscapingFilenames ==
    {<<"data.csv">>, <<"/", "etc", "/", "x.csv">>, <<"..", "/", "..", "/", "x.csv">>}
\* A destination holding a backslash, an ordinary character in a POSIX name.
MCBackslashDests == {<< >>, <<"out\\logs">>}
MCSplitAtBackslash == "out\\logs" :> <<"out", "/", "logs">>

=============================================================================
