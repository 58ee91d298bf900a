---------------------------- MODULE MC_MsvcNormpath ----------------------------
EXTENDS MsvcNormpath

\* The spelling "x\a"; the file is C:\a, C:\x\a (longer), or a name with a
\* lone surrogate in it.
MCPath    == <<"x", "\\", "a">>
DriveA    == <<"C", ":", "\\", "a">>
DriveLong == <<"C", ":", "\\", "x", "\\", "a">>
BadName   == <<"C", ":", "\\", "Lone">>

\* The file \\s\a on a share, as the API writes it after "\\?\".
UNCName   == <<"U", "N", "C", "\\", "s", "\\", "a">>

MCFinals      == {DriveA, DriveLong, BadName}
MCFinalsDrive == {DriveA, DriveLong}
MCFinalsUNC   == {UNCName}

=============================================================================
