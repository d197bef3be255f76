--------------------------- MODULE Configuration ---------------------------
(***************************************************************************)
(* How the driver reads its configuration: the merge of pkg/common, the    *)
(* controller's settings (pkg/driver/config.go), the client type, the      *)
(* whitelist of mount paths, and what a connection to iRODS must have      *)
(* (pkg/client/irods/connection_info.go).                                  *)
(*                                                                         *)
(* A source is a map (a record) from keys, as users spell them, to values: *)
(* strings, but for a path, the sequence of its names, the first one "/"   *)
(* when it is absolute, and for a whitelist, a sequence of paths.  Sources *)
(* are Go maps: where one spells a key twice, or two keys set one field,   *)
(* the order of an iteration decides, so the operators return sets.        *)
(***************************************************************************)
EXTENDS Integers, Sequences

\* NormalizeConfigKey lower-cases, drops "_", and takes "driver" for "client":
\* the keys looked up, with some of the spellings it makes of them.
Spellings == [
  client             |-> {"client", "Client", "driver"},
  volumerootpath     |-> {"volumeRootPath", "volume_root_path"},
  retaindata         |-> {"retainData", "retain_data"},
  novolumedir        |-> {"noVolumeDir", "no_volume_dir"},
  path               |-> {"path", "Path"},
  pathmappings       |-> {"pathMappings", "path_mappings"},
  user               |-> {"user", "User"},
  username           |-> {"userName", "user_name"},
  clientuser         |-> {"clientUser", "client_user"},
  password           |-> {"password", "Password"},
  host               |-> {"host", "Host"},
  enforceproxyaccess |-> {"enforceProxyAccess", "enforce_proxy_access"},
  mountpathwhitelist |-> {"mountPathWhitelist", "mount_path_whitelist"}]

\* the values a source gives a key; an empty one is not taken
Given(source, key) ==
  {source[k] : k \in {k \in DOMAIN source \cap Spellings[key] : Len(source[k]) > 0}}

\* mutant: what the volume's parameters say goes before the driver's secrets
FirstOfParamsFirst(sources, key, none) ==
  LET driver == Given(sources.driver, key)
      params == Given(sources.params, key)
      secrets == Given(sources.secrets, key)
  IN IF params # {} THEN params ELSE IF driver # {} THEN driver
     ELSE IF secrets # {} THEN secrets ELSE {none}
\* mutant: the secrets of the volume go before its parameters
FirstOfSecretsFirst(sources, key, none) ==
  LET driver == Given(sources.driver, key)
      params == Given(sources.params, key)
      secrets == Given(sources.secrets, key)
  IN IF driver # {} THEN driver ELSE IF secrets # {} THEN secrets
     ELSE IF params # {} THEN params ELSE {none}
\* the secrets of the driver, then the parameters and the secrets of the volume
FirstOf(sources, key, none) ==
  LET driver == Given(sources.driver, key)
      params == Given(sources.params, key)
      secrets == Given(sources.secrets, key)
  IN IF driver # {} THEN driver ELSE IF params # {} THEN params
     ELSE IF secrets # {} THEN secrets ELSE {none}

MergeConfig(sources) ==
  LET text(key) == FirstOf(sources, key, "")
      names(key) == FirstOf(sources, key, <<>>)
  IN [client : text("client"), volumerootpath : names("volumerootpath"),
      retaindata : text("retaindata"), novolumedir : text("novolumedir"),
      path : names("path"), pathmappings : names("pathmappings"),
      user : text("user"), username : text("username"),
      clientuser : text("clientuser"), password : text("password"),
      host : text("host"), enforceproxyaccess : text("enforceproxyaccess"),
      mountpathwhitelist : names("mountpathwhitelist")]

\* strconv.ParseBool; of anything else it makes an error
True == {"1", "t", "T", "true", "True", "TRUE"}
False == {"0", "f", "F", "false", "False", "FALSE"}
IsAbs(path) == Len(path) > 0 /\ path[1] = "/"
----------------------------------------------------------------------------
(* The client and the settings of the controller. *)

\* an unknown client is irodsfuse
GetClientType(configs) ==
  IF configs.client \in {"webdav", "nfs"} THEN configs.client ELSE "irodsfuse"

InvalidControllerConfig(configs) ==
  \/ ~IsAbs(configs.volumerootpath)
  \/ configs.retaindata \notin {""} \cup True \cup False
  \/ configs.novolumedir \notin {""} \cup True \cup False

\* makeControllerConfig.  A volume without a directory of its own is mounted at
\* the root, which must never be removed.
\* mutant: a volume's directory is made beside the root
ControllerConfigBesideRoot(volName, configs) ==
  IF configs.novolumedir \in True
  THEN [path |-> configs.volumerootpath, retain |-> TRUE, mkdir |-> FALSE]
  ELSE [path |-> [configs.volumerootpath EXCEPT ![Len(configs.volumerootpath)] = volName],
        retain |-> configs.retaindata \in True, mkdir |-> TRUE]
\* mutant: the root is removed with the volume
ControllerConfigRemovesRoot(volName, configs) ==
  [path |-> IF configs.novolumedir \in True THEN configs.volumerootpath
            ELSE Append(configs.volumerootpath, volName),
   retain |-> configs.retaindata \in True,
   mkdir |-> configs.novolumedir \notin True]
ControllerConfig(volName, configs) ==
  IF configs.novolumedir \in True
  THEN [path |-> configs.volumerootpath, retain |-> TRUE, mkdir |-> FALSE]
  ELSE [path |-> Append(configs.volumerootpath, volName),
        retain |-> configs.retaindata \in True, mkdir |-> TRUE]
----------------------------------------------------------------------------
(* Connections. *)

\* Names that begin with two dots: the comparison takes them for a way up.
Dotted == {"..data"}
IsSubDir(parent, sub) ==
  LET n == Len(parent) IN
  /\ n <= Len(sub) /\ SubSeq(sub, 1, n) = parent
  /\ Len(sub) > n => sub[n + 1] \notin Dotted

\* no whitelist allows every path, and so does an empty item in one
Whitelist(configs) ==
  IF configs.mountpathwhitelist = <<>> THEN {<<"/">>}
  ELSE {IF configs.mountpathwhitelist[i] = <<>> THEN <<"/">> ELSE configs.mountpathwhitelist[i] :
          i \in DOMAIN configs.mountpathwhitelist}
IsMountPathAllowed(whitelist, path) == \E item \in whitelist : IsSubDir(item, path)

\* getConnectionInfoFromMap: of the keys of one field any may be the last; a
\* user who is not given is anonymous
Anonymous == "anonymous"
ConnectionInfos(configs) ==
  LET users == {configs.user, configs.username} \ {""}
      paths == {configs.path, configs.pathmappings} \ {<<>>}
  IN [user : IF users # {} THEN users
             ELSE IF configs.clientuser = "" THEN {Anonymous} ELSE {""},
      path : IF paths = {} THEN {<<>>} ELSE paths]

\* the refusals of GetConnectionInfo; those of other required fields and of
\* values that do not parse are like the one of the host and the path
Refused(configs, info) ==
  \/ \E path \in {configs.path, configs.pathmappings} \ {<<>>} : ~IsAbs(path)
  \/ configs.password = "" /\ info.user # Anonymous
  \/ info.user \notin {"", Anonymous} /\ configs.clientuser = Anonymous
  \/ /\ configs.enforceproxyaccess \in True
     /\ info.user = Anonymous \/ configs.clientuser \in {"", info.user}
  \/ configs.host = ""
  \/ info.path = <<>>
  \/ ~IsMountPathAllowed(Whitelist(configs), info.path)
=============================================================================
