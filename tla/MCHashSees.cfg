SPECIFICATION Spec
CONSTANTS
    Keys = {1, 2, 3, 4, 5}
    hash_size = 3
    hash_function <- KeysModSize
PROPERTY
    RehashSeesAll
