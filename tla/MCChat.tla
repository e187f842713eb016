--------------------------------- MODULE MCChat ---------------------------------
(* Small instances of Chat.  A day has an hour before the quiet window, one in it  *)
(* and one after it, as with the default window from 01:00 to 07:00.               *)
EXTENDS Chat

QuietHours == {1}
================================================================================
