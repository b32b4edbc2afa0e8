SPECIFICATION Spec
CONSTANTS
  Alnum <- Letters
  Word <- Names
  Command <- Commands
  Text <- Texts
  Dir <- Dirs
  Initial <- Files
INVARIANTS
  TypeOK
  ListingCanBeTyped
  UneditedFormKeeps
  FormSettles
  AddedCanBeDisabled
  BareWordsSplit
