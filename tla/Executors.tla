------------------------------ MODULE Executors ------------------------------
(***************************************************************************)
(* How an action let through by the gate can end (core/executors): what    *)
(* the executor answers, and whether it has had its effect.  The skills    *)
(* build payloads of the right shape; only what the owner named in them    *)
(* can be refused.                                                         *)
(*                                                                         *)
(*   done          says done, and is                                       *)
(*   failed        says failed, and nothing is done                        *)
(*   doneYetFailed says failed, and is done: a process that had its effect *)
(*                 and then timed out or exited with an error              *)
(*   hollow        says done, and nothing is: most processes are believed  *)
(*                 if only they exit well                                  *)
(*   overtaken     says done, and it has come about, but by itself         *)
(*   notFound      failed, as there is no such application                 *)
(***************************************************************************)

ok(end) == end \in {"done", "hollow", "overtaken"}
does(end) == end \in {"done", "doneYetFailed", "overtaken"}

\* A process run by execFile whose effect is known from its answer, and one of which nothing
\* is known but the exit code: open, osascript, pbcopy, shortcuts, brightness.
processEnds == {"done", "failed", "doneYetFailed"}
believed == processEnds \cup {"hollow"}

\* Only what passes the executor's own look at the world gets as far as the process.
checked(ends) == UNION {IF passes THEN ends ELSE {"failed"} : passes \in BOOLEAN}
-----------------------------------------------------------------------------
(* APP_CONTROL                                                             *)

\* open -a
openApp == believed \cup {"notFound"}

\* Telling an application to quit, which succeeds if it is not running.
quits(running) == IF running THEN processEnds ELSE {"hollow"}

\* Mutant: what is not running is told to quit.
closeAppUnchecked == UNION {quits(running) : running \in BOOLEAN}

\* Only an application among the running processes is told to quit; it may have ended
\* since the look, and then the process has failed or finds nothing to do.
closeApp == checked(quits(TRUE) \cup {"overtaken", "failed"})

\* Only a valid http or https address.
openUrl == checked(believed)

runAppControlAction(action) ==
    CASE action = "open" -> openApp
      [] action = "close" -> closeApp
      [] action \in {"url", "browse"} -> openUrl
-----------------------------------------------------------------------------
(* SHELL_EXEC                                                              *)

controlMedia == believed
setVolume == believed

\* The brightness tool may not be installed.
setBrightness == checked(believed)

\* pbpaste: there is nothing to have done.
readClipboard == processEnds \ {"doneYetFailed"}
writeClipboard == believed

\* screencapture exits alike when the owner has selected an area and when not.
captureScreenshot == believed

setFocusMode == believed

runShellAction(action) ==
    CASE action = "play" -> controlMedia
      [] action = "volume" -> setVolume
      [] action = "brightness" -> setBrightness
      [] action = "focus" -> setFocusMode
      [] action = "paste" -> readClipboard
      [] action = "copy" -> writeClipboard
      [] action = "screenshot" -> captureScreenshot
-----------------------------------------------------------------------------
(* REMINDERS, MCP_TOOL_CALL and MEMORY_WRITE                               *)

\* A reminder added or completed is read back, which may fail after the fact.
runRemindersAction(action) ==
    IF action = "list" THEN {"done", "failed"} ELSE processEnds

\* McpRegistry.callTool: the server may not be connected, or the call may fail, having
\* been served or not.
callTool == checked({"done", "failed", "doneYetFailed"})

\* One autocommitted statement.
writeFact == {"done", "failed"}
=============================================================================
