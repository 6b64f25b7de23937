-------------------------- MODULE MCCalendarQueue --------------------------
(* CalendarQueue on small calendars: every bound comes from the .cfg.        *)
EXTENDS CalendarQueue
=============================================================================
