--------------------------- MODULE ConsoleClient ---------------------------
(***************************************************************************)
(* ConsoleClient::ActOn(ConnectedToCentralServer): the loop that prompts   *)
(* the user and turns what was typed into an action. A line is the words   *)
(* between its blanks, and so are the two commands of the prompt;          *)
(* `cin >> userAction` extracts one word, wherever the line ends, and at   *)
(* the end of the input none. A guest types a game id as the host was      *)
(* shown it, or as a number.                                               *)
(***************************************************************************)
EXTENDS Naturals, Sequences

CONSTANT GameIds

VARIABLES line,        \* the last line the user typed
          unread,      \* the words of it not yet extracted
          ended,       \* the input has ended
          userAction,  \* the variable of the loop, as words
          action       \* what ActOn returned, "none" while it loops

vars == <<line, unread, ended, userAction, action>>

newGameCmd == <<"new", "game">>
joinGameCmd == <<"join", "game">>

\* operator<< writes a class name and braces, which ActOn(CreatedNewGame) shows
\* to the host; ToString writes the digits alone.
Shown(g) == [form |-> "GameId{digits}", id |-> g]
ToString(g) == [form |-> "digits", id |-> g]

\* from_chars() wants a digit first and takes no notice of what comes after.
FromString(text) ==
  IF text.form \in {"digits", "digits and more"} THEN text.id ELSE "SystemError"

IdTexts == {Shown(g) : g \in GameIds} \cup [form : {"digits", "digits and more"}, id : GameIds]

Lines == {newGameCmd, joinGameCmd, <<"help">>} \cup {Append(joinGameCmd, t) : t \in IdTexts}

Init ==
  /\ line = <<>> /\ unread = <<>> /\ ended = FALSE
  /\ userAction = <<>> /\ action = "none"

TypeLine ==
  /\ action = "none" /\ unread = <<>> /\ ended = FALSE
  /\ line' \in Lines /\ unread' = line'
  /\ UNCHANGED <<ended, userAction, action>>

EndInput ==
  /\ action = "none" /\ unread = <<>> /\ ended = FALSE
  /\ ended' = TRUE
  /\ UNCHANGED <<line, unread, userAction, action>>

\* What one turn of the loop makes of userAction.
Interpret(words) ==
  CASE words = newGameCmd                                    -> "CreateNewGame"
    [] Len(words) > 2 /\ SubSeq(words, 1, 2) = joinGameCmd
         /\ FromString(words[3]) \in GameIds                 -> "JoinGame"
    [] OTHER                                                 -> "none"

\* One turn. When nothing is left to extract, userAction stays as it was and is
\* interpreted again, for ever.
Extract ==
  /\ action = "none"
  /\ unread # <<>> \/ ended
  /\ userAction' = IF unread = <<>> THEN userAction ELSE <<Head(unread)>>
  /\ unread' = IF unread = <<>> THEN unread ELSE Tail(unread)
  /\ action' = Interpret(userAction')
  /\ UNCHANGED <<line, ended>>

Next == TypeLine \/ EndInput \/ Extract

Spec == Init /\ [][Next]_vars

---------------------------------------------------------------------------
\* "Type "new game" to create a new game" (the prompt): a user who typed just
\* that is creating a game by the time the line is consumed.
NewGameIsUnderstood ==
  line = newGameCmd /\ unread = <<>> => action = "CreateNewGame"

=============================================================================
