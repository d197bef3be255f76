------------------------ MODULE MCControllerService ------------------------
(* A small instance of ControllerService for TLC: two claims, two replicas, *)
(* and the ways to write a configuration that the driver treats differently. *)
EXTENDS ControllerService, TLC

Home == <<"/", "home">>
Proj == <<"/", "proj">>
HomeAndProj == {Home, Proj}

Account == [host |-> "irods", user |-> "admin", password |-> "secret"]
\* a driver with a whitelist; one whose volumes name no user, and that has a path
\* meant for static volumes
Installations == [
  guarded   |-> Account @@ [mountPathWhitelist |-> <<Home>>],
  anonymous |-> [host |-> "irods", path |-> Proj]]

\* a directory of its own; that or none, as two spellings of a key are read; a
\* client that cannot do it; and a user who decides what is not for the user, and
\* retains
Just(params) == [params |-> params, secrets |-> <<>>, node |-> <<>>]
StorageClasses == [
  own    |-> Just([volumeRootPath |-> Home]),
  twice  |-> [Just([volumeRootPath |-> Home, noVolumeDir |-> "true", no_volume_dir |-> "false"])
                EXCEPT !.node = [path |-> Proj]],
  webdav |-> Just([volumeRootPath |-> Home, driver |-> "webdav"]),
  free   |-> [params |-> [volumeRootPath |-> Proj, retainData |-> "true", path |-> Home,
                          mountPathWhitelist |-> <<<<"/">>>>],
              secrets |-> Account, node |-> Account @@ [path |-> Home]]]

\* the second claim is there to share a root and the record file with the first,
\* which is like it when it is "twice" and has a directory
SmallInit ==
  /\ Init
  /\ class["pvc1"] # "own" /\ class["pvc2"] = "own"
  /\ leader = CHOOSE r \in Replicas : TRUE
SmallSpec == SmallInit /\ [][Next]_vars /\ Fairness

OneFile == [r \in Replicas |-> "storage"]
=============================================================================
