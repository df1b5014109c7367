SPECIFICATION Spec
CONSTANTS
  Owner = Owner
  friend = friend
  u1 = u1
  u2 = u2
  friendEvent = friendEvent
  Authors <- MCAuthors
  Urls = {u1, u2}
  Bootstrap <- MCBootstrap
  Events = {friendEvent}
  AuthorOf <- MCAuthorOf
  Socks = {k1}
  MaxStarts = 1
PROPERTIES
  StopDisconnects
