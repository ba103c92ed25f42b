-------------------------- MODULE MCWindowsControl --------------------------
(* Small instances of WindowsControl for TLC. *)
EXTENDS WindowsControl

\* A write that names a window after one that does not, a read, and a plan no intent
\* of the instance admits.
Plans == {<<"launch_notepad", "set_text">>, <<"window_info", "launch_notepad">>,
          <<"list_windows", "set_text">>}
=============================================================================
