------------------------ MODULE MCBrowserConversations ------------------------
(* An instance of the browser's conversations. *)
EXTENDS BrowserConversations

CONSTANTS s1, s2

\* A browser with one conversation of two exchanges, the second of which was cut off
\* by a reload.
Past == Conversation(<<[request |-> -1, text |-> 1, state |-> "done"],
                       [request |-> 0, text |-> 0, state |-> "pending"]>>,
                     <<Mark(-1, TRUE), Mark(0, FALSE)>>)
UsedBefore ==
    {[s \in {s1, s2} |-> IF s = s1 THEN [title |-> "new", held |-> {Past}] ELSE Absent]}
=============================================================================
