----------------------------- MODULE StorageList -----------------------------
(***************************************************************************)
(* The navigation of the storage view (src/usage-storage-list.vala,        *)
(* src/usage-storage-view.vala) and the header bar of the window that goes *)
(* with it (src/usage-window.vala).                                        *)
(*                                                                         *)
(* A path is the sequence of the indices that lead to a row of the model,  *)
(* the first row having the path <<0>>.                                    *)
(***************************************************************************)
EXTENDS Integers, Sequences

CONSTANT Tree   \* the paths of the rows of the model

Path == Seq(Nat)

\* gtk_tree_path_up(): the path of the parent, the empty path if there is none.
up(path) == IF path = <<>> THEN path ELSE SubSeq(path, 1, Len(path) - 1)

\* The first row is there, and the parent of every other.
ASSUME StorageAssumption ==
  /\ Tree \subseteq Path
  /\ <<0>> \in Tree
  /\ \A path \in Tree : path # <<>>
  /\ \A path \in Tree : Len(path) > 1 => up(path) \in Tree

VARIABLES
  root_path,     \* the row whose children are listed
  listed,        \* the rows of the list box
  title,         \* the row the header bar names, <<>> for the stack switcher
  back_button,   \* the back button is shown
  visible        \* the view of the stack that is shown, "storage" or another

storageVars == <<root_path, listed, title, back_button, visible>>

StorageTypeOK ==
  /\ root_path \in Path
  /\ listed \subseteq Tree
  /\ title \in Path
  /\ back_button \in BOOLEAN
  /\ visible \in {"storage", "other"}

-----------------------------------------------------------------------------

ChildrenOf(path) == {row \in Tree : Len(row) > 1 /\ up(row) = path}

\* StorageList.update(): nothing is listed when there is no such row.
update == listed' = IF root_path' \in Tree THEN ChildrenOf(root_path') ELSE {}

\* Mutation: the top of the tree has a title and a way back too.
update_mode_at_top ==
  IF Len(root_path') > 0
  THEN title' = root_path' /\ back_button' = TRUE
  ELSE title' = <<>> /\ back_button' = FALSE

\* update_mode(), and what the window does when the mode has changed.
update_mode ==
  IF Len(root_path') > 1
  THEN title' = root_path' /\ back_button' = TRUE
  ELSE title' = <<>> /\ back_button' = FALSE

\* The model is set, its first row is the root.  The mode does not change, and the
\* back button is hidden as usage-window.ui makes it.
StorageInit ==
  /\ root_path = <<0>> /\ listed = ChildrenOf(<<0>>)
  /\ title = <<>> /\ back_button = FALSE
  /\ visible \in {"storage", "other"}

\* Mutation: the handler of the view comes before that of the list.
row_activated_before(row) ==
  /\ visible = "storage" /\ row \in listed
  /\ root_path' = row
  /\ update
  /\ IF Len(root_path) > 1
     THEN title' = root_path /\ back_button' = TRUE
     ELSE title' = <<>> /\ back_button' = FALSE
  /\ UNCHANGED visible

\* The handler of the list, and after it that of the view.
row_activated(row) ==
  /\ visible = "storage" /\ row \in listed
  /\ root_path' = row
  /\ update
  /\ update_mode
  /\ UNCHANGED visible

\* The back button is for the view that is shown, which ignores it unless it is
\* the storage view.
go_back ==
  /\ back_button
  /\ IF visible = "storage"
     THEN root_path' = up(root_path) /\ update /\ update_mode
     ELSE UNCHANGED <<root_path, listed, title, back_button>>
  /\ UNCHANGED visible

\* The user chooses another view; the switcher is where the title would be.
SwitchView ==
  /\ title = <<>>
  /\ visible' \in {"storage", "other"} \ {visible}
  /\ UNCHANGED <<root_path, listed, title, back_button>>

StorageNext == (\E row \in listed : row_activated(row)) \/ go_back \/ SwitchView

StorageSpec == StorageInit /\ [][StorageNext]_storageVars

-----------------------------------------------------------------------------
(* Properties.                                                             *)

\* The list shows the children of a row of the model, however the user went to and
\* fro: going back never leaves the model.
ListShowsThePath == root_path \in Tree /\ listed = ChildrenOf(root_path)

\* The header bar names the row listed and offers the way back just when there is
\* one, and then the view shown is the one that goes back.
HeaderShowsThePath ==
  /\ back_button <=> Len(root_path) > 1
  /\ title = IF back_button THEN root_path ELSE <<>>
  /\ back_button => visible = "storage"

=============================================================================
