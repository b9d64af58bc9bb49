SPECIFICATION Spec
CONSTANTS
  Callers = {a, b}
  Systems = {"linux", "macos", "windows"}
  Proxies = {p, q}
  Workers = 1
  Interfaces = {wifi, cable}
  Servers = {near, far}
  MaxChanges = 2
INVARIANTS
  UserTypesOK
  LoginAsAnswered
  EntryWhole
  SessionFollowsFile
PROPERTIES
  ForeignFileKept
  KnowledgeConverges
