-------------------------------- MODULE Chat --------------------------------
(***************************************************************************)
(* One user's chat with the bot (app/bot/handlers.py over                  *)
(* app/services/auction_service.py).  The dispatcher runs a handler for    *)
(* every update as a task of its own, so a handler that waits for the      *)
(* database, for Yahoo or for Telegram is overtaken by others of the same  *)
(* chat.  The dialogue, which auction the next text names, is kept in the  *)
(* process's memory.                                                       *)
(*                                                                         *)
(* A transaction's reads and its writes are two steps; what has no await   *)
(* but the storage's in memory is one.                                     *)
(***************************************************************************)
EXTENDS Values

CONSTANTS Auctions, Names,
          Tasks,       \* slots for concurrent handlers
          PageSize     \* PAGE_SIZE

VARIABLES
    known,      \* has the user a row in table users?
    rows,       \* [Auctions -> "none", "open" or "closed"], table auctions
    links,      \* [Auctions -> the user's row in user_auctions, or None]
    dialogue,   \* the auction that waits for a name, or None
    task        \* [Tasks -> the handler at work, or None]

vars == <<known, rows, links, dialogue, task>>

Links == [label : Maybe(Names), on : BOOLEAN]

\* The column values of a new link.
NewLink == [label |-> None, on |-> TRUE]

\* "read" is the link a handler has loaded, None once its row is deleted.
Handlers ==
         [pc : {"adding", "telling", "muting"}, auction : Auctions]
    \cup [pc : {"creating"}, auction : Auctions, row : {"none", "open", "closed"},
          stranger : BOOLEAN]
    \cup [pc : {"naming"}, auction : Auctions, name : Names]
    \cup [pc : {"labelling"}, auction : Auctions, name : Names, read : Maybe(Links)]
    \cup [pc : {"switching"}, auction : Auctions, read : Maybe(Links)]

TypeOK == /\ known \in BOOLEAN
          /\ rows \in [Auctions -> {"none", "open", "closed"}]
          /\ links \in [Auctions -> Maybe(Links)]
          /\ dialogue \in Maybe(Auctions)
          /\ task \in [Tasks -> Maybe(Handlers)]

Init == /\ known = FALSE
        /\ rows \in [Auctions -> {"none", "open", "closed"}]
        /\ links = [a \in Auctions |-> None]
        /\ dialogue = None
        /\ task = [t \in Tasks |-> None]

At(t, pc) == task[t] # None /\ task[t].pc = pc

Goes(t, handler) == task' = [task EXCEPT ![t] = handler]

Ends(t) == Goes(t, None)

-----------------------------------------------------------------------------
(* A link is sent: _handle_url, add_watch *)

SendLink(t, a) ==
    /\ task[t] = None
    /\ Goes(t, [pc |-> "adding", auction |-> a])
    /\ dialogue' = None
    /\ UNCHANGED <<known, rows, links>>

\* add_watch reads.  One that is watched already is answered at once.
Look(t) ==
    /\ At(t, "adding")
    /\ LET a == task[t].auction
       IN  Goes(t, IF links[a] # None THEN None
                   ELSE [pc |-> "creating", auction |-> a, row |-> rows[a],
                         stranger |-> ~known])
    /\ UNCHANGED <<known, rows, links, dialogue>>

\* The page of a new auction cannot be had: an answer, and no row at all.
FetchFails(t) ==
    /\ At(t, "creating") /\ task[t].row = "none"
    /\ Ends(t)
    /\ UNCHANGED <<known, rows, links, dialogue>>

\* Has another transaction created meanwhile what this one is about to?
Conflicts(h) == \/ h.stranger /\ known
                \/ h.row = "none" /\ rows[h.auction] # "none"
                \/ h.row = "open" /\ links[h.auction] # None

\* The rows are inserted and committed, the link unless the auction has been
\* seen to be closed.  Nothing catches a violated unique index: the handler
\* ends without an answer.
Create(t) ==
    /\ At(t, "creating")
    /\ LET h == task[t]
       IN  IF Conflicts(h)
           THEN Ends(t) /\ UNCHANGED <<known, rows, links>>
           ELSE \E seen \in IF h.row = "none" THEN {"open", "closed"} ELSE {h.row} :
                  /\ known' = TRUE
                  /\ rows' = IF h.row = "none" THEN [rows EXCEPT ![h.auction] = seen]
                             ELSE rows
                  /\ IF seen = "closed" THEN Ends(t) /\ UNCHANGED links
                     ELSE /\ links' = [links EXCEPT ![h.auction] = NewLink]
                          /\ Goes(t, [pc |-> "telling", auction |-> h.auction])
    /\ UNCHANGED dialogue

\* The user has been told; the dialogue begins, and then the prompt is sent.
Tell(t) ==
    /\ At(t, "telling")
    /\ dialogue' = task[t].auction
    /\ Ends(t)
    /\ UNCHANGED <<known, rows, links>>

-----------------------------------------------------------------------------
(* A name is sent: handle_name_message, set_label *)

\* Mutated form of Written: the UPDATE has all the columns.
WrittenWhole(current, read, new) == new

\* The ORM updates the columns whose value is not the loaded one.
Written(current, read, new) ==
    [field \in DOMAIN new |->
        IF new[field] = read[field] THEN current[field] ELSE new[field]]

\* The text is for the auction of the dialogue as it is now.
SendName(t, name) ==
    /\ task[t] = None /\ dialogue # None
    /\ Goes(t, [pc |-> "naming", auction |-> dialogue, name |-> name])
    /\ UNCHANGED <<known, rows, links, dialogue>>

\* set_label reads the link.  Without one the dialogue ends.
ReadToName(t) ==
    /\ At(t, "naming")
    /\ LET h == task[t]
       IN  IF links[h.auction] = None
           THEN Ends(t) /\ dialogue' = None
           ELSE /\ Goes(t, [pc |-> "labelling", auction |-> h.auction,
                            name |-> h.name, read |-> links[h.auction]])
                /\ UNCHANGED dialogue
    /\ UNCHANGED <<known, rows, links>>

\* The name is committed, and whatever dialogue is open by now is closed.  A link
\* that is gone when set_label looks for it once more is left alone and the
\* dialogue is closed; if it goes after that, the UPDATE fails and closes nothing.
Label(t) ==
    /\ At(t, "labelling")
    /\ LET h == task[t]
       IN  \/ /\ h.read # None
              /\ links' = [links EXCEPT ![h.auction] =
                              Written(@, h.read, [h.read EXCEPT !.label = h.name])]
              /\ dialogue' = None
           \/ h.read = None /\ links' = links /\ dialogue' \in {dialogue, None}
    /\ Ends(t)
    /\ UNCHANGED <<known, rows>>

\* /skip, /cancel and the button to the menu.
LeaveDialogue == /\ dialogue' = None
                 /\ UNCHANGED <<known, rows, links, task>>

-----------------------------------------------------------------------------
(* The buttons of an auction: cb_mute, cb_delete *)

SendMute(t, a) ==
    /\ task[t] = None
    /\ Goes(t, [pc |-> "muting", auction |-> a])
    /\ UNCHANGED <<known, rows, links, dialogue>>

\* toggle_notifications reads the link; without one it is done.
ReadToSwitch(t) ==
    /\ At(t, "muting")
    /\ LET a == task[t].auction
       IN  Goes(t, IF links[a] = None THEN None
                   ELSE [pc |-> "switching", auction |-> a, read |-> links[a]])
    /\ UNCHANGED <<known, rows, links, dialogue>>

Switch(t) ==
    /\ At(t, "switching")
    /\ LET h == task[t]
       IN  links' = IF h.read = None THEN links
                    ELSE [links EXCEPT ![h.auction] =
                            Written(@, h.read, [h.read EXCEPT !.on = ~@])]
    /\ Ends(t)
    /\ UNCHANGED <<known, rows, dialogue>>

\* The handlers that have read the link are left with a row that is gone.
Unlink(a) ==
    /\ links[a] # None
    /\ links' = [links EXCEPT ![a] = None]
    /\ task' = [t \in Tasks |->
                  IF (At(t, "labelling") \/ At(t, "switching")) /\ task[t].auction = a
                  THEN [task[t] EXCEPT !.read = None] ELSE task[t]]

\* remove_watch
Delete(a) == Unlink(a) /\ UNCHANGED <<known, rows, dialogue>>

-----------------------------------------------------------------------------
(* Around the chat *)

\* Another user adds the auction, or a poll finds it closed.
RowChanges(a) ==
    /\ \/ rows[a] = "none" /\ rows' = [rows EXCEPT ![a] = "open"]
       \/ rows[a] = "open" /\ rows' = [rows EXCEPT ![a] = "closed"]
    /\ UNCHANGED <<known, links, dialogue, task>>

\* The scheduler removes the links of a closed auction.
Clean(a) == /\ rows[a] = "closed" /\ Unlink(a)
            /\ UNCHANGED <<known, rows, dialogue>>

\* Telegram or the database fails a handler; nothing is answered.
Dies(t) == /\ task[t] # None /\ Ends(t)
           /\ UNCHANGED <<known, rows, links, dialogue>>

\* The storage in memory is lost, and so are the updates at work.
Restart == /\ dialogue' = None /\ task' = [t \in Tasks |-> None]
           /\ UNCHANGED <<known, rows, links>>

Handle(t) == \/ Look(t) \/ FetchFails(t) \/ Create(t) \/ Tell(t)
             \/ ReadToName(t) \/ Label(t) \/ ReadToSwitch(t) \/ Switch(t) \/ Dies(t)

Next == \/ LeaveDialogue \/ Restart
        \/ \E a \in Auctions : Delete(a) \/ RowChanges(a) \/ Clean(a)
        \/ \E t \in Tasks :
              \/ Handle(t)
              \/ \E a \in Auctions : SendLink(t, a) \/ SendMute(t, a)
              \/ \E name \in Names : SendName(t, name)

Spec == Init /\ [][Next]_vars

-----------------------------------------------------------------------------
(* The list of auctions: _list_content *)

\* Mutated form of TotalPages: a last page that is not full is left out.
TotalPagesFull(items) == IF items < PageSize THEN 1 ELSE items \div PageSize

TotalPages(items) ==
    IF items = 0 THEN 1 ELSE (items + PageSize - 1) \div PageSize

\* The page shown for the page asked for, perhaps by an old message's button.
PageShown(items, page) ==
    IF page < 1 THEN 1 ELSE IF page > TotalPages(items) THEN TotalPages(items) ELSE page

ItemsShown(items, page) ==
    {i \in 1..items : (i - 1) \div PageSize = PageShown(items, page) - 1}

\* The pages its arrows lead to.
Arrows(items, page) ==
    {p \in {PageShown(items, page) - 1, PageShown(items, page) + 1} :
        p \in 1..TotalPages(items)}

-----------------------------------------------------------------------------
(* Properties *)

\* A name and a mute given at the same time do not undo each other, though both
\* handlers have loaded the link before (handlers.py:259-275, 342-357).
SettingsApart ==
    [][\A t \in Tasks, a \in Auctions :
         links[a] # None /\ links'[a] # None =>
            /\ Label(t)  => links'[a].on = links[a].on
            /\ Switch(t) => links'[a].label = links[a].label]_vars
=============================================================================
